---- MODULE Spec2Model ----
(***************************************************************************)
(* The crossing-constraint model and propagation solver of kryss:          *)
(* word.rs (slot geometry, place/unplace), dictionary.rs (lookup,          *)
(* add_word), board.rs (crossing index, refresh_candidates, place,         *)
(* unplace, solve_repeated).                                               *)
(*                                                                         *)
(* A character is a one-letter string, a word (Rust String) a sequence of  *)
(* characters, a Vec a sequence.  Rust indices start at 0, TLA+ sequences  *)
(* at 1: offsets are kept as in the code and 1 is added where a sequence   *)
(* is indexed.  Option<T> is <<>> for None and <<v>> for Some(v).          *)
(***************************************************************************)
EXTENDS Integers, Sequences, FiniteSets, TLC

VARIABLES
    words,      \* Board::words: Vec<Word>
    crossings,  \* Board::crossings: a -> Vec<(b, ai, bi)>
    state,      \* Board::state
    changed,    \* Board::changed
    dict,       \* Dictionary::words: key -> (length -> Vec<String>)
    pc,         \* where the single thread is: "idle" or inside solve_repeated
    si,         \* solve_repeated: the index i of the for loop
    done,       \* solve_repeated: the local variable done
    panicked,   \* an assert!, unwrap or index of the code has failed
    lastOp,     \* history: the operation that ran last
    lastIx,     \* history: the slot index that operation was given
    unplaced,   \* history: the rollback list of the last Board::place
    before,     \* history: Board::words before the last step
    acted,      \* history: this call of solve_repeated has placed a slot
    lastWord,   \* history: the opt_word the last Board::place was given
    out         \* the last call of a geometry function: its build, its outcome

vars == <<words, crossings, state, changed, dict, pc, si, done, panicked,
          lastOp, lastIx, unplaced, before, acted, lastWord, out>>

-----------------------------------------------------------------------------
(* Bounds of the model *)

\* How many slots of a loaded grid file may carry a pre-fixed value (key=VALUE).
MaxPrefixed == 1

\* The geometry functions are applied to slots anchored at (0..GridMax,
\* 0..GridMax) of length 1..MaxLength.
GridMax == 2
MaxLength == 3

\* Grid files of three slots: the slots start in the columns and rows
\* 0..TripleMax and have length TripleLength.
TripleMax == 1
TripleLength == 2

-----------------------------------------------------------------------------
(* Helpers on sequences *)

Range(s) == {s[i] : i \in DOMAIN s}

Min(a, b) == IF a < b THEN a ELSE b

Max(a, b) == IF a > b THEN a ELSE b

\* Vec::swap_remove(j), j counted from 0: the last element takes the place of
\* the removed one.
SwapRemove(v, j) ==
    IF j + 1 = Len(v) THEN SubSeq(v, 1, Len(v) - 1)
    ELSE [k \in 1..(Len(v) - 1) |-> IF k = j + 1 THEN v[Len(v)] ELSE v[k]]

-----------------------------------------------------------------------------
(* word.rs: Orientation *)

Right == "R"
Left == "L"
Down == "D"
Up == "U"

Orientations == {Right, Left, Down, Up}

is_horizontal(o) == o \in {Right, Left}

is_vertical(o) == o \in {Down, Up}

is_reversed(o) == o \in {Left, Up}

same_or_opposite_direction(o, other) ==
    \/ is_horizontal(o) /\ is_horizontal(other)
    \/ is_vertical(o) /\ is_vertical(other)

-----------------------------------------------------------------------------
(* word.rs: geometry of a Word.  x, y and length are usize: a subtraction  *)
(* that goes below zero panics in a debug build and wraps in a release     *)
(* build.  TLC's integers have 32 bits, so the wrap is modelled modulo     *)
(* UsizeMod; against grid coordinates a wrapped value compares as the      *)
(* 64-bit one does (it is larger than any of them).                        *)

UsizeMod == 1073741824

\* The two build profiles: a debug build checks usize arithmetic and panics
\* on overflow, a release build wraps.
Debug == "debug"
Release == "release"
Builds == {Debug, Release}

USub(a, b) == (a - b + UsizeMod) % UsizeMod

UAdd(a, b) == (a + b) % UsizeMod

xmin(w) == IF w.o = Left THEN UAdd(USub(w.x, w.length), 1) ELSE w.x

ymin(w) == IF w.o = Up THEN UAdd(USub(w.y, w.length), 1) ELSE w.y

xmax(w) == IF w.o = Right THEN USub(UAdd(w.x, w.length), 1) ELSE w.x

ymax(w) == IF w.o = Down THEN USub(UAdd(w.y, w.length), 1) ELSE w.y

position_at_index(w, i) ==
    CASE w.o = Right -> <<UAdd(w.x, i), w.y>>
      [] w.o = Left  -> <<USub(w.x, i), w.y>>
      [] w.o = Down  -> <<w.x, UAdd(w.y, i)>>
      [] w.o = Up    -> <<w.x, USub(w.y, i)>>

position_in_word(w, x, y) ==
    /\ x >= xmin(w)
    /\ x <= xmax(w)
    /\ y >= ymin(w)
    /\ y <= ymax(w)

\* Fault: the comparisons of the horizontal case used for a vertical self too.
is_crossing_one_case(a, b) ==
    IF same_or_opposite_direction(a.o, b.o) THEN FALSE
    ELSE /\ xmin(a) <= xmin(b) /\ xmax(a) >= xmax(b)
         /\ ymin(a) >= ymin(b) /\ ymax(a) <= ymax(b)

is_crossing(a, b) ==
    IF same_or_opposite_direction(a.o, b.o) THEN FALSE
    ELSE IF is_horizontal(a.o)
         THEN /\ xmin(a) <= xmin(b) /\ xmax(a) >= xmax(b)
              /\ ymin(a) >= ymin(b) /\ ymax(a) <= ymax(b)
         ELSE /\ xmin(a) >= xmin(b) /\ xmax(a) <= xmax(b)
              /\ ymin(a) <= ymin(b) /\ ymax(a) >= ymax(b)

\* Fault: the last rule inverted: parallel slots conflict on different lines
\* and not on the same line.
is_conflicting_same_line_allowed(a, b) ==
    LET b_is_over == ymax(b) < ymin(a)
        b_is_under == ymin(b) > ymax(a)
        b_is_left == xmax(b) < xmin(a)
        b_is_right == xmin(b) > xmax(a)
    IN  IF is_crossing(a, b) THEN FALSE
        ELSE IF \/ b_is_over /\ (b_is_left \/ b_is_right)
                \/ b_is_under /\ (b_is_left \/ b_is_right) THEN FALSE
        ELSE IF \/ UAdd(xmax(b), 1) < xmin(a)
                \/ USub(xmin(b), 1) > xmax(a)
                \/ UAdd(ymax(b), 1) < ymin(a)
                \/ USub(ymin(b), 1) > ymax(a) THEN FALSE
        ELSE IF is_horizontal(a.o) /\ is_horizontal(b.o) THEN a.y # b.y
        ELSE IF is_vertical(a.o) /\ is_vertical(b.o) THEN a.x # b.x
        ELSE TRUE

\* Fault: the corner rule left out.
is_conflicting_no_corner_rule(a, b) ==
    IF is_crossing(a, b) THEN FALSE
    ELSE IF \/ UAdd(xmax(b), 1) < xmin(a)
            \/ USub(xmin(b), 1) > xmax(a)
            \/ UAdd(ymax(b), 1) < ymin(a)
            \/ USub(ymin(b), 1) > ymax(a) THEN FALSE
    ELSE IF is_horizontal(a.o) /\ is_horizontal(b.o) THEN a.y = b.y
    ELSE IF is_vertical(a.o) /\ is_vertical(b.o) THEN a.x = b.x
    ELSE TRUE

\* Fault: the last rule left out: whatever passes the side test conflicts.
is_conflicting_no_parallel_rule(a, b) ==
    LET b_is_over == ymax(b) < ymin(a)
        b_is_under == ymin(b) > ymax(a)
        b_is_left == xmax(b) < xmin(a)
        b_is_right == xmin(b) > xmax(a)
    IN  IF is_crossing(a, b) THEN FALSE
        ELSE IF \/ b_is_over /\ (b_is_left \/ b_is_right)
                \/ b_is_under /\ (b_is_left \/ b_is_right) THEN FALSE
        ELSE IF \/ UAdd(xmax(b), 1) < xmin(a)
                \/ USub(xmin(b), 1) > xmax(a)
                \/ UAdd(ymax(b), 1) < ymin(a)
                \/ USub(ymin(b), 1) > ymax(a) THEN FALSE
        ELSE TRUE

is_conflicting(a, b) ==
    LET b_is_over == ymax(b) < ymin(a)
        b_is_under == ymin(b) > ymax(a)
        b_is_left == xmax(b) < xmin(a)
        b_is_right == xmin(b) > xmax(a)
    IN  IF is_crossing(a, b) THEN FALSE
        ELSE IF \/ b_is_over /\ (b_is_left \/ b_is_right)
                \/ b_is_under /\ (b_is_left \/ b_is_right) THEN FALSE
        ELSE IF \/ UAdd(xmax(b), 1) < xmin(a)
                \/ USub(xmin(b), 1) > xmax(a)
                \/ UAdd(ymax(b), 1) < ymin(a)
                \/ USub(ymin(b), 1) > ymax(a) THEN FALSE
        ELSE IF is_horizontal(a.o) /\ is_horizontal(b.o) THEN a.y = b.y
        ELSE IF is_vertical(a.o) /\ is_vertical(b.o) THEN a.x = b.x
        ELSE TRUE

\* "self.x - self.length + 1" goes below zero on the way (a Left slot whose
\* last cell is in column 0, or further left): a debug build panics there.
XminPanics(bd, w) == bd = Debug /\ w.o = Left /\ w.x < w.length

YminPanics(bd, w) == bd = Debug /\ w.o = Up /\ w.y < w.length

\* is_crossing(a, b) panics: its && chain calls xmin of both slots first and
\* ymin of both only when the two x comparisons hold.
IsCrossingPanics(bd, a, b) ==
    /\ ~same_or_opposite_direction(a.o, b.o)
    /\ \/ XminPanics(bd, a)
       \/ XminPanics(bd, b)
       \/ /\ IF is_horizontal(a.o)
             THEN xmin(a) <= xmin(b) /\ xmax(a) >= xmax(b)
             ELSE xmin(a) >= xmin(b) /\ xmax(a) <= xmax(b)
          /\ YminPanics(bd, a) \/ YminPanics(bd, b)

\* is_conflicting(a, b) panics: in is_crossing, in the eight bounds it takes
\* first, or in "b_xmin - 1" and "b_ymin - 1", which the || chain of the
\* side test reaches when the tests before them are false.
IsConflictingPanics(bd, a, b) ==
    LET corner ==
            \/ ymax(b) < ymin(a) /\ (xmax(b) < xmin(a) \/ xmin(b) > xmax(a))
            \/ ymin(b) > ymax(a) /\ (xmax(b) < xmin(a) \/ xmin(b) > xmax(a))
        s1 == UAdd(xmax(b), 1) < xmin(a)
        s2 == USub(xmin(b), 1) > xmax(a)
        s3 == UAdd(ymax(b), 1) < ymin(a)
    IN  \/ IsCrossingPanics(bd, a, b)
        \/ /\ bd = Debug
           /\ ~is_crossing(a, b)
           /\ \/ XminPanics(bd, a) \/ YminPanics(bd, a)
              \/ XminPanics(bd, b) \/ YminPanics(bd, b)
              \/ /\ ~corner
                 /\ \/ ~s1 /\ xmin(b) = 0
                    \/ ~s1 /\ ~s2 /\ ~s3 /\ ymin(b) = 0

\* The outcome of a call: it panics, or it returns a value.
Res(p, v) == [panics |-> p, value |-> IF p THEN FALSE ELSE v]

-----------------------------------------------------------------------------
(* word.rs: the solving state of a Word *)

\* Word::from_parts: the slot is placed iff the file gives it a value.
from_parts(o, x, y, length, key, value) ==
    [o |-> o, x |-> x, y |-> y, length |-> length, key |-> key,
     candidates |-> IF value = <<>> THEN <<>> ELSE <<value[1]>>,
     placed |-> value # <<>>]

\* Fault: any number of candidates counts as one.
has_one_candidate_or_more(w) == Len(w.candidates) >= 1

has_one_candidate(w) == Len(w.candidates) = 1

has_candidates(w) == w.candidates # <<>>

is_solution(w) == w.key = <<>>

\* The character a failed assert! or unwrap stands for; no word holds it.
Poison == "!"

\* Word::char_at asserts has_one_candidate and unwraps the ix-th character.
CharAtOk(w, ix) == has_one_candidate(w) /\ ix < Len(w.candidates[1])

char_at(w, ix) == IF CharAtOk(w, ix) THEN w.candidates[1][ix + 1] ELSE Poison

\* Word::place
WordPlace(w, opt_word) ==
    IF opt_word = <<>>
    THEN [w EXCEPT !.placed = TRUE]
    ELSE [w EXCEPT !.placed = TRUE, !.candidates = <<opt_word[1]>>]

\* Fault: Word::unplace dropping the key as well.
WordUnplaceDropsKey(w) ==
    [w EXCEPT !.placed = FALSE, !.candidates = <<>>, !.key = <<>>]

\* Fault: Word::unplace clearing the candidates only.
WordUnplaceKeepsFlag(w) == [w EXCEPT !.candidates = <<>>]

\* Word::unplace
WordUnplace(w) == [w EXCEPT !.placed = FALSE, !.candidates = <<>>]

-----------------------------------------------------------------------------
(* dictionary.rs *)

\* The hint character that stands for an unknown letter.
Dot == "."

Dots(length) == [k \in 1..length |-> Dot]

\* Fault: the wildcard is compared like a letter.
MatchesWithoutWildcard(w, hint) ==
    \A k \in 1..Min(Len(w), Len(hint)) : w[k] = hint[k]

\* Dictionary::lookup, the loop over one stored word: w.chars().zip(hint.chars())
\* stops at the shorter of the two.
Matches(w, hint) ==
    \A k \in 1..Min(Len(w), Len(hint)) : ~(w[k] # hint[k] /\ hint[k] # Dot)

\* Dictionary::lookup.  A key the dictionary does not hold is fetched from the
\* network (lookup_from_gratiskryss); the model has no network, and the keys of
\* the slots are all held, so that branch yields nothing here.
Lookup(d, key, length, opt_hint) ==
    LET hint == IF opt_hint = <<>> THEN Dots(length) ELSE opt_hint[1]
    IN  IF key \in DOMAIN d /\ length \in DOMAIN d[key]
        THEN SelectSeq(d[key][length], LAMBDA w : Matches(w, hint))
        ELSE <<>>

\* Dictionary::add_word
AddWord(d, key, word) ==
    LET len == Len(word)
    IN  IF key \in DOMAIN d
        THEN IF len \in DOMAIN d[key]
             THEN IF word \in Range(d[key][len]) THEN d
                  ELSE [d EXCEPT ![key][len] = Append(@, word)]
             ELSE [d EXCEPT ![key] =
                      [l \in DOMAIN d[key] \cup {len} |->
                          IF l = len THEN <<word>> ELSE d[key][l]]]
        ELSE [k \in DOMAIN d \cup {key} |->
                 IF k = key THEN [l \in {len} |-> <<word>>] ELSE d[k]]

-----------------------------------------------------------------------------
(* board.rs: the crossing index, built by Board::from_file.  Slots are     *)
(* numbered from 0 as in the code; slot a is ws[a + 1].                    *)

NumWords(ws) == Len(ws)

Indices(ws) == 0..(Len(ws) - 1)

AbsDiff(p, q) == IF p > q THEN USub(p, q) ELSE USub(q, p)

\* Fault: the entry pushed as (b, xi, yi) whatever the orientation of a.
CrossingEntryUnswapped(ws, a, b) ==
    << b, AbsDiff(ws[a + 1].x, ws[b + 1].x), AbsDiff(ws[a + 1].y, ws[b + 1].y) >>

\* The entry (b, ai, bi) that from_file pushes for a crossing pair.
CrossingEntry(ws, a, b) ==
    LET xi == AbsDiff(ws[a + 1].x, ws[b + 1].x)
        yi == AbsDiff(ws[a + 1].y, ws[b + 1].y)
    IN  IF is_horizontal(ws[a + 1].o) THEN <<b, xi, yi>> ELSE <<b, yi, xi>>

\* The inner loop of from_file over b = 0, 1, ... for a fixed a.
RECURSIVE ACrossings(_, _, _)
ACrossings(ws, a, b) ==
    IF b >= Len(ws) THEN <<>>
    ELSE IF b # a /\ is_crossing(ws[a + 1], ws[b + 1])
         THEN <<CrossingEntry(ws, a, b)>> \o ACrossings(ws, a, b + 1)
         ELSE ACrossings(ws, a, b + 1)

FindCrossings(ws) == [a \in Indices(ws) |-> ACrossings(ws, a, 0)]

\* from_file panics when two slots conflict.
HasConflict(ws) ==
    \E a, b \in Indices(ws) : a # b /\ is_conflicting(ws[a + 1], ws[b + 1])

\* The loops of from_file over the pairs (a, b), from this pair on: "ok"
\* when they end, "conflict" at the first pair is_conflicting finds, and
\* "overflow" when the arithmetic of a call panics before that.
\* Fault: each pair of slots is tested in one order only.
RECURSIVE ScanPairsOneOrder(_, _, _, _)
ScanPairsOneOrder(bd, ws, a, b) ==
    IF a >= Len(ws) THEN "ok"
    ELSE IF b >= Len(ws) THEN ScanPairsOneOrder(bd, ws, a + 1, 0)
    ELSE IF a >= b THEN ScanPairsOneOrder(bd, ws, a, b + 1)
    ELSE IF IsConflictingPanics(bd, ws[a + 1], ws[b + 1]) THEN "overflow"
    ELSE IF is_conflicting(ws[a + 1], ws[b + 1]) THEN "conflict"
    ELSE ScanPairsOneOrder(bd, ws, a, b + 1)

RECURSIVE ScanPairs(_, _, _, _)
ScanPairs(bd, ws, a, b) ==
    IF a >= Len(ws) THEN "ok"
    ELSE IF b >= Len(ws) THEN ScanPairs(bd, ws, a + 1, 0)
    ELSE IF a = b THEN ScanPairs(bd, ws, a, b + 1)
    ELSE IF IsConflictingPanics(bd, ws[a + 1], ws[b + 1]) THEN "overflow"
    ELSE IF is_conflicting(ws[a + 1], ws[b + 1]) THEN "conflict"
    ELSE ScanPairs(bd, ws, a, b + 1)

-----------------------------------------------------------------------------
(* board.rs: hints and candidate refresh *)

\* Fault: get_hints reading every crossing slot that has one candidate,
\* placed or not.
RECURSIVE HintLoopOfSingles(_, _, _, _)
HintLoopOfSingles(ws, cs, k, v) ==
    IF k > Len(cs) THEN v
    ELSE LET wb == ws[cs[k][1] + 1]
         IN  IF has_one_candidate(wb) /\ cs[k][2] < Len(v)
             THEN HintLoopOfSingles(ws, cs, k + 1,
                      [v EXCEPT ![cs[k][2] + 1] = char_at(wb, cs[k][3])])
             ELSE HintLoopOfSingles(ws, cs, k + 1, v)

\* Fault: the character of the crossing slot is read at the offset in the
\* hinted slot.
RECURSIVE HintLoopOwnOffset(_, _, _, _)
HintLoopOwnOffset(ws, cs, k, v) ==
    IF k > Len(cs) THEN v
    ELSE LET b == cs[k][1]
             ai == cs[k][2]
             wb == ws[b + 1]
         IN  IF wb.placed /\ ai < Len(v)
             THEN HintLoopOwnOffset(ws, cs, k + 1,
                                    [v EXCEPT ![ai + 1] = char_at(wb, ai)])
             ELSE HintLoopOwnOffset(ws, cs, k + 1, v)

\* Board::get_hints, the loop over the crossings of an unplaced slot, entry
\* k onwards, v being the hint built so far.
RECURSIVE HintLoop(_, _, _, _)
HintLoop(ws, cs, k, v) ==
    IF k > Len(cs) THEN v
    ELSE LET b == cs[k][1]
             ai == cs[k][2]
             bi == cs[k][3]
             wb == ws[b + 1]
         IN  IF wb.placed /\ ai < Len(v)
             THEN HintLoop(ws, cs, k + 1, [v EXCEPT ![ai + 1] = char_at(wb, bi)])
             ELSE HintLoop(ws, cs, k + 1, v)

get_hints(ws, cr, a) ==
    LET w == ws[a + 1]
    IN  IF w.placed
        THEN IF w.candidates = <<>> THEN <<Poison>> ELSE w.candidates[1]
        ELSE HintLoop(ws, cr[a], 1, Dots(w.length))

\* get_hints(a) fails: a placed slot without a candidate (candidates[0]), a
\* char_at whose assertion fails, or an offset outside the hint (v[ai]).
HintsPanic(ws, cr, a) ==
    LET w == ws[a + 1]
    IN  IF w.placed THEN w.candidates = <<>>
        ELSE \E k \in DOMAIN cr[a] :
                 /\ ws[cr[a][k][1] + 1].placed
                 /\ \/ ~CharAtOk(ws[cr[a][k][1] + 1], cr[a][k][3])
                    \/ cr[a][k][2] >= w.length

\* Fault: refresh_candidates looking up without the hint.
RefreshWithoutHint(ws, cr, d) ==
    [n \in DOMAIN ws |->
        IF ws[n].placed \/ ws[n].key = <<>> THEN ws[n]
        ELSE [ws[n] EXCEPT !.candidates =
                 Lookup(d, ws[n].key[1], ws[n].length, <<>>)]]

\* Fault: a slot without a key is looked up under the empty key.
refresh_candidates_every_slot(ws, cr, d) ==
    [n \in DOMAIN ws |->
        IF ws[n].placed THEN ws[n]
        ELSE [ws[n] EXCEPT !.candidates =
                 Lookup(d, IF ws[n].key = <<>> THEN "" ELSE ws[n].key[1],
                        ws[n].length, <<get_hints(ws, cr, n - 1)>>)]]

\* Board::refresh_candidates.  The hint of every slot is computed, placed or
\* not; only unplaced slots with a key are looked up.  A hint reads placed
\* slots only and the loop writes unplaced slots only, so the slots can be
\* refreshed independently of the loop's order.
refresh_candidates(ws, cr, d) ==
    [n \in DOMAIN ws |->
        IF ws[n].placed \/ ws[n].key = <<>> THEN ws[n]
        ELSE [ws[n] EXCEPT !.candidates =
                 Lookup(d, ws[n].key[1], ws[n].length,
                        <<get_hints(ws, cr, n - 1)>>)]]

RefreshPanics(ws, cr) == \E a \in Indices(ws) : HintsPanic(ws, cr, a)

-----------------------------------------------------------------------------
(* board.rs: place and unplace *)

\* xw.candidates[j].chars().nth(bi).unwrap()
NthChar(c, bi) == IF bi < Len(c) THEN c[bi + 1] ELSE Poison

\* Fault: the while loop stepping to j + 1 after a swap_remove, so that the
\* candidate moved into place j is not examined.
RECURSIVE FilterLoopSkipping(_, _, _, _)
FilterLoopSkipping(v, j, bi, ch) ==
    IF j >= Len(v) THEN v
    ELSE IF NthChar(v[j + 1], bi) # ch
         THEN FilterLoopSkipping(SwapRemove(v, j), j + 1, bi, ch)
         ELSE FilterLoopSkipping(v, j + 1, bi, ch)

\* Fault: no candidate is removed.
FilterLoopKeepsAll(v, j, bi, ch) == v

\* Board::place, the while loop over the candidates v of one unplaced
\* crossing slot, from index j on: a candidate whose character at bi differs
\* from ch is swap_removed and index j is examined again.
RECURSIVE FilterLoop(_, _, _, _)
FilterLoop(v, j, bi, ch) ==
    IF j >= Len(v) THEN v
    ELSE IF NthChar(v[j + 1], bi) # ch
         THEN FilterLoop(SwapRemove(v, j), j, bi, ch)
         ELSE FilterLoop(v, j + 1, bi, ch)

\* Fault: the for loop comparing the candidates of an unplaced crossing slot
\* with the placed slot's character at bi, the wrong offset.
RECURSIVE PlaceLoopWrongOffset(_, _, _, _, _)
PlaceLoopWrongOffset(ws, cs, k, w, unpl) ==
    IF k > Len(cs) THEN [words |-> ws, unplace |-> unpl]
    ELSE LET b == cs[k][1]
             ai == cs[k][2]
             bi == cs[k][3]
             xw == ws[b + 1]
         IN  IF xw.placed
             THEN IF char_at(xw, bi) # char_at(w, ai)
                  THEN PlaceLoopWrongOffset(ws, cs, k + 1, w, Append(unpl, b))
                  ELSE PlaceLoopWrongOffset(ws, cs, k + 1, w, unpl)
             ELSE PlaceLoopWrongOffset(
                      [ws EXCEPT ![b + 1].candidates =
                          FilterLoop(@, 0, bi, char_at(w, bi))],
                      cs, k + 1, w, unpl)

\* Fault: the for loop leaving the candidates of unplaced crossing slots as
\* they are.
RECURSIVE PlaceLoopNoFilter(_, _, _, _, _)
PlaceLoopNoFilter(ws, cs, k, w, unpl) ==
    IF k > Len(cs) THEN [words |-> ws, unplace |-> unpl]
    ELSE LET b == cs[k][1]
             xw == ws[b + 1]
         IN  IF xw.placed /\ char_at(xw, cs[k][3]) # char_at(w, cs[k][2])
             THEN PlaceLoopNoFilter(ws, cs, k + 1, w, Append(unpl, b))
             ELSE PlaceLoopNoFilter(ws, cs, k + 1, w, unpl)

\* Fault: a placed crossing slot that disagrees is left as it is.
RECURSIVE PlaceLoopNoRollback(_, _, _, _, _)
PlaceLoopNoRollback(ws, cs, k, w, unpl) ==
    IF k > Len(cs) THEN [words |-> ws, unplace |-> unpl]
    ELSE LET b == cs[k][1]
             ai == cs[k][2]
             bi == cs[k][3]
             xw == ws[b + 1]
         IN  IF xw.placed
             THEN PlaceLoopNoRollback(ws, cs, k + 1, w, unpl)
             ELSE PlaceLoopNoRollback(
                      [ws EXCEPT ![b + 1].candidates =
                          FilterLoop(@, 0, bi, char_at(w, ai))],
                      cs, k + 1, w, unpl)

\* Board::place, the for loop over the crossings cs of the placed slot w (a
\* clone taken after Word::place), entry k onwards; unpl is the local unplace.
RECURSIVE PlaceLoop(_, _, _, _, _)
PlaceLoop(ws, cs, k, w, unpl) ==
    IF k > Len(cs) THEN [words |-> ws, unplace |-> unpl]
    ELSE LET b == cs[k][1]
             ai == cs[k][2]
             bi == cs[k][3]
             xw == ws[b + 1]
         IN  IF xw.placed
             THEN IF char_at(xw, bi) # char_at(w, ai)
                  THEN PlaceLoop(ws, cs, k + 1, w, Append(unpl, b))
                  ELSE PlaceLoop(ws, cs, k + 1, w, unpl)
             ELSE PlaceLoop(
                      [ws EXCEPT ![b + 1].candidates =
                          FilterLoop(@, 0, bi, char_at(w, ai))],
                      cs, k + 1, w, unpl)

\* Fault: Board::unplace without the refresh_candidates that follows.
BoardUnplaceNoRefresh(ws, cr, d, ix) == [ws EXCEPT ![ix + 1] = WordUnplace(@)]

\* Board::unplace
BoardUnplace(ws, cr, d, ix) ==
    refresh_candidates([ws EXCEPT ![ix + 1] = WordUnplace(@)], cr, d)

\* Fault: only the first slot of the unplace list is rolled back.
UnplaceLoopFirstOnly(ws, cr, d, unpl, k) ==
    IF unpl = <<>> THEN ws ELSE BoardUnplace(ws, cr, d, unpl[1])

\* Board::place, the loop "for u in unplace", entry k onwards.
RECURSIVE UnplaceLoop(_, _, _, _, _)
UnplaceLoop(ws, cr, d, unpl, k) ==
    IF k > Len(unpl) THEN ws
    ELSE UnplaceLoop(BoardUnplace(ws, cr, d, unpl[k]), cr, d, unpl, k + 1)

\* Board::unplace fails in refresh_candidates.
UnplacePanics(ws, cr, ix) ==
    RefreshPanics([ws EXCEPT ![ix + 1] = WordUnplace(@)], cr)

RECURSIVE UnplaceLoopPanics(_, _, _, _, _)
UnplaceLoopPanics(ws, cr, d, unpl, k) ==
    IF k > Len(unpl) THEN FALSE
    ELSE \/ UnplacePanics(ws, cr, unpl[k])
         \/ UnplaceLoopPanics(BoardUnplace(ws, cr, d, unpl[k]), cr, d, unpl, k + 1)

\* The for loop of Board::place fails: a char_at assertion on the placed slot
\* w or on a placed crossing slot, or a candidate shorter than the shared
\* offset (nth(bi).unwrap()).
PlaceLoopPanics(ws1, cs, w) ==
    \E k \in DOMAIN cs :
        LET xw == ws1[cs[k][1] + 1]
            ai == cs[k][2]
            bi == cs[k][3]
        IN  IF xw.placed
            THEN ~CharAtOk(xw, bi) \/ ~CharAtOk(w, ai)
            ELSE /\ xw.candidates # <<>>
                 /\ \/ ~CharAtOk(w, ai)
                    \/ \E c \in Range(xw.candidates) : bi >= Len(c)

\* Fault: Board::place ending with a refresh_candidates in every case.
BoardPlaceRefreshing(ws, cr, d, ix, opt_word) ==
    LET ws1 == [ws EXCEPT ![ix + 1] = WordPlace(@, opt_word)]
        lp == PlaceLoop(ws1, cr[ix], 1, ws1[ix + 1], <<>>)
    IN  [words |-> refresh_candidates(
                       UnplaceLoop(lp.words, cr, d, lp.unplace, 1), cr, d),
         unplace |-> lp.unplace,
         panics |-> \/ PlaceLoopPanics(ws1, cr[ix], ws1[ix + 1])
                    \/ UnplaceLoopPanics(lp.words, cr, d, lp.unplace, 1)]

\* Board::place: the new words, the slots it rolled back, and whether it
\* failed on the way.
BoardPlace(ws, cr, d, ix, opt_word) ==
    LET ws1 == [ws EXCEPT ![ix + 1] = WordPlace(@, opt_word)]
        lp == PlaceLoop(ws1, cr[ix], 1, ws1[ix + 1], <<>>)
    IN  [words |-> UnplaceLoop(lp.words, cr, d, lp.unplace, 1),
         unplace |-> lp.unplace,
         panics |-> \/ PlaceLoopPanics(ws1, cr[ix], ws1[ix + 1])
                    \/ UnplaceLoopPanics(lp.words, cr, d, lp.unplace, 1)]

-----------------------------------------------------------------------------
(* board.rs: solve_repeated *)

Unsolved == "Unsolved"
Unsolvable == "Unsolvable"
Ambiguous == "Ambiguous"
Solved == "Solved"

\* Fault: the for loop's body without "done = false".
VisitKeepsDone(ws, cr, d, i, dn) ==
    IF ~ws[i + 1].placed /\ has_one_candidate(ws[i + 1])
    THEN LET r == BoardPlace(ws, cr, d, i, <<>>)
         IN  [words |-> r.words, done |-> dn, unplace |-> r.unplace,
              placed |-> TRUE, panics |-> r.panics]
    ELSE [words |-> ws, done |-> dn, unplace |-> <<>>, placed |-> FALSE,
          panics |-> FALSE]

\* Fault: the for loop's body with "done = false" outside the if.
VisitNeverDone(ws, cr, d, i, dn) ==
    IF ~ws[i + 1].placed /\ has_one_candidate(ws[i + 1])
    THEN LET r == BoardPlace(ws, cr, d, i, <<>>)
         IN  [words |-> r.words, done |-> FALSE, unplace |-> r.unplace,
              placed |-> TRUE, panics |-> r.panics]
    ELSE [words |-> ws, done |-> FALSE, unplace |-> <<>>, placed |-> FALSE,
          panics |-> FALSE]

\* The body of "for i in 0..self.words.len()" for one i: a slot that is not
\* placed and has one candidate is placed, and done becomes false.
Visit(ws, cr, d, i, dn) ==
    IF ~ws[i + 1].placed /\ has_one_candidate(ws[i + 1])
    THEN LET r == BoardPlace(ws, cr, d, i, <<>>)
         IN  [words |-> r.words, done |-> FALSE, unplace |-> r.unplace,
              placed |-> TRUE, panics |-> r.panics]
    ELSE [words |-> ws, done |-> dn, unplace |-> <<>>, placed |-> FALSE,
          panics |-> FALSE]

\* Fault: the maximum taken over all slots, the placed ones too.
RECURSIVE MaxOverAllSlots(_, _, _)
MaxOverAllSlots(ws, n, m) ==
    IF n > Len(ws) THEN m
    ELSE MaxOverAllSlots(ws, n + 1, Max(m, Len(ws[n].candidates)))

\* Fault: no comparison with max_candidates: the last unplaced slot's
\* candidates.len() is what remains.
RECURSIVE LastCandidates(_, _, _)
LastCandidates(ws, n, m) ==
    IF n > Len(ws) THEN m
    ELSE IF ws[n].placed THEN LastCandidates(ws, n + 1, m)
         ELSE LastCandidates(ws, n + 1, Len(ws[n].candidates))

\* The largest candidates.len() over the slots that are not placed, -1 when
\* there is none.
\* Fault: the placed slots are counted too.
RECURSIVE MaxCandidatesCountsPlaced(_, _, _)
MaxCandidatesCountsPlaced(ws, n, m) ==
    IF n > Len(ws) THEN m
    ELSE MaxCandidatesCountsPlaced(ws, n + 1, Max(m, Len(ws[n].candidates)))

RECURSIVE MaxCandidates(_, _, _)
MaxCandidates(ws, n, m) ==
    IF n > Len(ws) THEN m
    ELSE IF ws[n].placed THEN MaxCandidates(ws, n + 1, m)
         ELSE MaxCandidates(ws, n + 1, Max(m, Len(ws[n].candidates)))

\* Fault: the arms 0 and 1 of the match exchanged.
ClassifyArmsExchanged(ws) ==
    LET max_candidates == MaxCandidates(ws, 1, -1)
    IN  CASE max_candidates = -1 -> Solved
          [] max_candidates = 0 -> Unsolved
          [] max_candidates = 1 -> Unsolvable
          [] OTHER -> Ambiguous

\* Fault: a board whose uncommitted slots have no candidate counts as solved.
ClassifySolvedWhenEmpty(ws) ==
    LET max_candidates == MaxCandidates(ws, 1, -1)
    IN  CASE max_candidates = -1 -> Solved
          [] max_candidates = 0 -> Solved
          [] max_candidates = 1 -> Unsolved
          [] OTHER -> Ambiguous

\* The match on max_candidates that ends solve_repeated.
Classify(ws) ==
    LET max_candidates == MaxCandidates(ws, 1, -1)
    IN  CASE max_candidates = -1 -> Solved
          [] max_candidates = 0 -> Unsolvable
          [] max_candidates = 1 -> Unsolved
          [] OTHER -> Ambiguous

\* The for loop of solve_repeated, visiting the slots in the given order
\* (the code visits them by index), from the k-th visit on.
RECURSIVE ForLoop(_, _, _, _, _, _)
ForLoop(ws, cr, d, order, k, dn) ==
    IF k > Len(order) THEN [words |-> ws, done |-> dn]
    ELSE LET r == Visit(ws, cr, d, order[k], dn)
         IN  ForLoop(r.words, cr, d, order, k + 1, r.done)

\* The while loop of solve_repeated; fuel bounds the for loops still allowed.
RECURSIVE WhileLoop(_, _, _, _, _)
WhileLoop(ws, cr, d, order, fuel) ==
    LET p == ForLoop(ws, cr, d, order, 1, TRUE)
    IN  IF p.done \/ fuel = 0 THEN p
        ELSE WhileLoop(p.words, cr, d, order, fuel - 1)

\* 0, 1, ..., n-1: the order in which solve_repeated visits the slots.
IndexOrder(ws) == [k \in 1..Len(ws) |-> k - 1]

\* solve_repeated as a function of the board it is called on and of the
\* visiting order: the words and the state it leaves.  Every for loop but
\* the last places a slot, so more than Len(ws) + 1 loops mean that a slot
\* was placed twice; finished tells that the loop was left within them.
SolveRepeated(ws, cr, d, order) ==
    LET p == WhileLoop(ws, cr, d, order, 2 * Len(ws))
    IN  [words |-> p.words, state |-> Classify(p.words), finished |-> p.done]

-----------------------------------------------------------------------------
(* The inputs of the model: one grid file, a few dictionary files, and the *)
(* words a user may type.                                                  *)

AAB == <<"A", "A", "B">>
BAB == <<"B", "A", "B">>
ABA == <<"A", "B", "A">>
AA == <<"A", "A">>
AB == <<"A", "B">>
BA == <<"B", "A">>

\* The lines of the grid file: three keyed slots and one slot of the solution
\* line (no key).  Slot 0 crosses slot 1 in cell (1,1) and slot 3 in (3,1);
\* slot 1 crosses slot 2 in (1,3).
GridFile ==
    << [o |-> Right, x |-> 1, y |-> 1, length |-> 3, key |-> <<"k1">>],
       [o |-> Down,  x |-> 1, y |-> 1, length |-> 3, key |-> <<"k2">>],
       [o |-> Left,  x |-> 2, y |-> 3, length |-> 2, key |-> <<"k3">>],
       [o |-> Up,    x |-> 3, y |-> 2, length |-> 2, key |-> <<>>] >>

\* A dictionary file: the words of length 3 under k1 and k2, of length 2
\* under k3; k1 also holds a word of length 2 and the empty key one too.
MkDict(l1, l2, l3) ==
    ("k1" :> (3 :> l1 @@ 2 :> <<AA>>)) @@
    ("k2" :> (3 :> l2)) @@
    ("k3" :> (2 :> l3)) @@
    ("" :> (2 :> <<AB>>))

Dicts ==
    { MkDict(<<AAB, BAB>>, <<BAB, ABA>>, <<AB>>),
      MkDict(<<AAB>>, <<BAB>>, <<AA, BA>>),
      MkDict(<<AAB, BAB>>, <<BAB, ABA, AAB>>, <<>>),
      MkDict(<<BAB>>, <<ABA, BAB, AAB>>, <<AB>>) }

\* The values a grid file may pre-fix and a user may place.
PlaceWords == {AAB, BAB, ABA, AB}

\* The pre-fixed values of a grid file: per line none, or a value of the
\* slot's length.
Prefixes ==
    {pf \in [DOMAIN GridFile -> {<<>>} \cup {<<v>> : v \in PlaceWords}] :
        /\ \A n \in DOMAIN GridFile :
              pf[n] # <<>> => Len(pf[n][1]) = GridFile[n].length
        /\ Cardinality({n \in DOMAIN GridFile : pf[n] # <<>>}) <= MaxPrefixed}

\* The Vec<Word> that Board::from_file reads from the grid file.
Loaded(pf) ==
    [n \in DOMAIN GridFile |->
        from_parts(GridFile[n].o, GridFile[n].x, GridFile[n].y,
                   GridFile[n].length, GridFile[n].key, pf[n])]

-----------------------------------------------------------------------------
(* The state machine *)

\* No geometry function has been called on its own.
NoCall == [fn |-> "none"]

\* Board::from_file: the words of the file, the crossing index, state
\* Unsolved, changed false, and a first refresh_candidates.  It panics, and
\* there is no board, when two slots conflict.
Init ==
    \E d \in Dicts, pf \in Prefixes :
        /\ ~HasConflict(Loaded(pf))
        /\ ~RefreshPanics(Loaded(pf), FindCrossings(Loaded(pf)))
        /\ crossings = FindCrossings(Loaded(pf))
        /\ words = refresh_candidates(Loaded(pf), FindCrossings(Loaded(pf)), d)
        /\ state = Unsolved
        /\ changed = FALSE
        /\ dict = d
        /\ pc = "idle"
        /\ si = 0
        /\ done = TRUE
        /\ panicked = FALSE
        /\ lastOp = "from_file"
        /\ lastIx = 0
        /\ unplaced = <<>>
        /\ before = Loaded(pf)
        /\ acted = FALSE
        /\ lastWord = <<>>
        /\ out = NoCall

Idle == pc = "idle" /\ ~panicked

Panic ==
    /\ panicked' = TRUE
    /\ UNCHANGED <<words, crossings, state, changed, dict, pc, si, done,
                   lastOp, lastIx, unplaced, before, acted, lastWord, out>>

\* Fault: Board::place setting the state back to Unsolved.
PlaceResettingState ==
    \E ix \in Indices(words), v \in PlaceWords :
        /\ Idle
        /\ Len(v) = words[ix + 1].length
        /\ LET r == BoardPlace(words, crossings, dict, ix, <<v>>)
           IN  IF r.panics THEN Panic
               ELSE /\ words' = r.words
                    /\ changed' = TRUE
                    /\ state' = Unsolved
                    /\ lastOp' = "place"
                    /\ lastIx' = ix
                    /\ unplaced' = r.unplace
                    /\ before' = words
                    /\ acted' = FALSE
                    /\ lastWord' = <<v>>
                    /\ UNCHANGED <<crossings, dict, pc, si, done, panicked,
                                   out>>

\* Board::place(ix, Some(v), dict), v of the slot's length (the caller's duty).
Place ==
    \E ix \in Indices(words), v \in PlaceWords :
        /\ Idle
        /\ Len(v) = words[ix + 1].length
        /\ LET r == BoardPlace(words, crossings, dict, ix, <<v>>)
           IN  IF r.panics THEN Panic
               ELSE /\ words' = r.words
                    /\ changed' = TRUE
                    /\ lastOp' = "place"
                    /\ lastIx' = ix
                    /\ unplaced' = r.unplace
                    /\ before' = words
                    /\ acted' = FALSE
                    /\ lastWord' = <<v>>
                    /\ UNCHANGED <<crossings, state, dict, pc, si, done,
                                   panicked,
                                   out>>

\* Board::unplace(ix, dict)
Unplace ==
    \E ix \in Indices(words) :
        /\ Idle
        /\ IF UnplacePanics(words, crossings, ix) THEN Panic
           ELSE /\ words' = BoardUnplace(words, crossings, dict, ix)
                /\ lastOp' = "unplace"
                /\ lastIx' = ix
                /\ unplaced' = <<>>
                /\ before' = words
                /\ acted' = FALSE
                /\ lastWord' = <<>>
                /\ UNCHANGED <<crossings, state, changed, dict, pc, si, done,
                               panicked,
                               out>>

\* Board::refresh_candidates(dict)
Refresh ==
    /\ Idle
    /\ IF RefreshPanics(words, crossings) THEN Panic
       ELSE /\ words' = refresh_candidates(words, crossings, dict)
            /\ lastOp' = "refresh"
            /\ lastIx' = 0
            /\ unplaced' = <<>>
            /\ before' = words
            /\ acted' = FALSE
            /\ lastWord' = <<>>
            /\ UNCHANGED <<crossings, state, changed, dict, pc, si, done,
                           panicked,
                           out>>

\* Fault: Board::write_to_file leaving the changed flag as it is.
WriteToFileKeepsChanged ==
    /\ Idle
    /\ lastOp' = "write_to_file"
    /\ lastIx' = 0
    /\ unplaced' = <<>>
    /\ before' = words
    /\ acted' = FALSE
    /\ lastWord' = <<>>
    /\ UNCHANGED <<words, crossings, state, changed, dict, pc, si, done,
                   panicked, out>>

\* Board::write_to_file
WriteToFile ==
    /\ Idle
    /\ changed' = FALSE
    /\ lastOp' = "write_to_file"
    /\ lastIx' = 0
    /\ unplaced' = <<>>
    /\ before' = words
    /\ acted' = FALSE
    /\ lastWord' = <<>>
    /\ UNCHANGED <<words, crossings, state, dict, pc, si, done, panicked,
                   out>>

\* solve_repeated is entered: "while !done { done = true; for i in 0.."
SolveBegin ==
    /\ Idle
    /\ pc' = "solve"
    /\ si' = 0
    /\ done' = TRUE
    /\ lastOp' = "solve_begin"
    /\ lastIx' = 0
    /\ unplaced' = <<>>
    /\ before' = words
    /\ acted' = FALSE
    /\ lastWord' = <<>>
    /\ UNCHANGED <<words, crossings, state, changed, dict, panicked,
                   out>>

\* solve_repeated: one turn of the for loop, slot si.
SolveVisit ==
    /\ pc = "solve"
    /\ ~panicked
    /\ si < NumWords(words)
    /\ LET r == Visit(words, crossings, dict, si, done)
       IN  IF r.panics THEN Panic
           ELSE /\ words' = r.words
                /\ done' = r.done
                /\ changed' = (changed \/ r.placed)
                /\ si' = si + 1
                /\ lastOp' = IF r.placed THEN "solve_place" ELSE "solve_skip"
                /\ lastIx' = si
                /\ unplaced' = r.unplace
                /\ before' = words
                /\ acted' = (acted \/ r.placed)
                /\ lastWord' = <<>>
                /\ UNCHANGED <<crossings, state, dict, pc, panicked,
                               out>>

\* Fault: solve_repeated returns after its first for loop.
SolvePassEndAfterOnePass ==
    /\ pc = "solve"
    /\ ~panicked
    /\ si = NumWords(words)
    /\ state' = Classify(words)
    /\ pc' = "idle"
    /\ lastOp' = "solve_return"
    /\ si' = 0
    /\ lastIx' = 0
    /\ unplaced' = <<>>
    /\ before' = words
    /\ acted' = acted
    /\ lastWord' = <<>>
    /\ UNCHANGED <<words, crossings, changed, dict, done, panicked, out>>

\* solve_repeated: the for loop has ended.  Either the while loop runs
\* again, or it is left, the state is classified and the call returns.
SolvePassEnd ==
    /\ pc = "solve"
    /\ ~panicked
    /\ si = NumWords(words)
    /\ IF done
       THEN /\ state' = Classify(words)
            /\ pc' = "idle"
            /\ lastOp' = "solve_return"
            /\ UNCHANGED done
       ELSE /\ done' = TRUE
            /\ lastOp' = "solve_pass"
            /\ UNCHANGED <<state, pc>>
    /\ si' = 0
    /\ lastIx' = 0
    /\ unplaced' = <<>>
    /\ before' = words
    /\ acted' = acted
    /\ lastWord' = <<>>
    /\ UNCHANGED <<words, crossings, changed, dict, panicked,
                   out>>

Next ==
    \/ Place
    \/ Unplace
    \/ Refresh
    \/ WriteToFile
    \/ SolveBegin
    \/ SolveVisit
    \/ SolvePassEnd

Spec == Init /\ [][Next]_vars

-----------------------------------------------------------------------------
(* The geometry functions, applied to two slots of a grid file *)

\* The footprint of the slot lies in the grid: no cell left of column 0 or
\* above row 0.
InGrid(o, x, y, length) ==
    /\ o = Left => x + 1 >= length
    /\ o = Up => y + 1 >= length

\* The slots a line of a grid file can describe, within the bounds.
GeomSlots ==
    {g \in [o : Orientations, x : 0..GridMax, y : 0..GridMax,
            length : 1..MaxLength] : InGrid(g.o, g.x, g.y, g.length)}

\* Two lines of the solution kind (no key, no value) have been read.
GeomInit ==
    \E g, h \in GeomSlots :
        /\ words = << from_parts(g.o, g.x, g.y, g.length, <<>>, <<>>),
                      from_parts(h.o, h.x, h.y, h.length, <<>>, <<>>) >>
        /\ crossings = [a \in {0, 1} |-> <<>>]
        /\ state = Unsolved
        /\ changed = FALSE
        /\ dict = <<>>
        /\ pc = "geometry"
        /\ si = 0
        /\ done = TRUE
        /\ panicked = FALSE
        /\ lastOp = "read"
        /\ lastIx = 0
        /\ unplaced = <<>>
        /\ before = <<>>
        /\ acted = FALSE
        /\ lastWord = <<>>
        /\ out = NoCall

\* is_crossing is called on the two slots, in both orders.
CallIsCrossing ==
    /\ pc = "geometry"
    /\ out = NoCall
    /\ \E bd \in Builds :
           out' = [fn |-> "is_crossing", build |-> bd,
                   ab |-> Res(IsCrossingPanics(bd, words[1], words[2]),
                              is_crossing(words[1], words[2])),
                   ba |-> Res(IsCrossingPanics(bd, words[2], words[1]),
                              is_crossing(words[2], words[1]))]
    /\ UNCHANGED <<words, crossings, state, changed, dict, pc, si, done,
                   panicked, lastOp, lastIx, unplaced, before, acted,
                   lastWord>>

\* is_conflicting is called on the two slots, in both orders.
CallIsConflicting ==
    /\ pc = "geometry"
    /\ out = NoCall
    /\ \E bd \in Builds :
           out' = [fn |-> "is_conflicting", build |-> bd,
                   ab |-> Res(IsConflictingPanics(bd, words[1], words[2]),
                              is_conflicting(words[1], words[2])),
                   ba |-> Res(IsConflictingPanics(bd, words[2], words[1]),
                              is_conflicting(words[2], words[1]))]
    /\ UNCHANGED <<words, crossings, state, changed, dict, pc, si, done,
                   panicked, lastOp, lastIx, unplaced, before, acted,
                   lastWord>>

\* Board::from_file builds the crossing index of the two slots, or panics.
CallFromFile ==
    /\ pc = "geometry"
    /\ out = NoCall
    /\ \E bd \in Builds :
           /\ out' = [fn |-> "from_file", build |-> bd,
                      outcome |-> ScanPairs(bd, words, 0, 0)]
           /\ IF ScanPairs(bd, words, 0, 0) = "ok"
              THEN /\ crossings' = FindCrossings(words)
                   /\ lastOp' = "from_file"
                   /\ UNCHANGED panicked
              ELSE /\ panicked' = TRUE
                   /\ UNCHANGED <<crossings, lastOp>>
    /\ UNCHANGED <<words, state, changed, dict, pc, si, done, lastIx,
                   unplaced, before, acted, lastWord>>

\* The slots of three lines of a grid file: each of length TripleLength,
\* starting in the columns and rows 0..TripleMax.
TripleSlots ==
    {g \in [o : Orientations, x : 0..TripleMax, y : 0..TripleMax,
            length : {TripleLength}] : InGrid(g.o, g.x, g.y, g.length)}

\* Three lines of the solution kind (no key, no value) have been read.
TripleInit ==
    \E g, h, i \in TripleSlots :
        /\ words = << from_parts(g.o, g.x, g.y, g.length, <<>>, <<>>),
                      from_parts(h.o, h.x, h.y, h.length, <<>>, <<>>),
                      from_parts(i.o, i.x, i.y, i.length, <<>>, <<>>) >>
        /\ crossings = [a \in {0, 1, 2} |-> <<>>]
        /\ state = Unsolved
        /\ changed = FALSE
        /\ dict = <<>>
        /\ pc = "geometry"
        /\ si = 0
        /\ done = TRUE
        /\ panicked = FALSE
        /\ lastOp = "read"
        /\ lastIx = 0
        /\ unplaced = <<>>
        /\ before = <<>>
        /\ acted = FALSE
        /\ lastWord = <<>>
        /\ out = NoCall

TripleSpec == TripleInit /\ [][CallFromFile]_vars

\* position_in_word(x, y) panics: it calls xmin first and, when the two
\* tests on x hold, ymin.
PositionInWordPanics(bd, w, x, y) ==
    \/ XminPanics(bd, w)
    \/ x >= xmin(w) /\ x <= xmax(w) /\ YminPanics(bd, w)

\* The footprint of the first slot is computed: the cell of every offset,
\* position_in_word of that cell, and the bounding box.
CallFootprint ==
    /\ pc = "geometry"
    /\ out = NoCall
    /\ \E bd \in Builds :
           LET w == words[1]
               cell == [i \in 0..(w.length - 1) |-> position_at_index(w, i)]
           IN  out' = [fn |-> "footprint", build |-> bd,
                       cells |-> cell,
                       inside |-> [i \in 0..(w.length - 1) |->
                                      Res(PositionInWordPanics(bd, w,
                                              cell[i][1], cell[i][2]),
                                          position_in_word(w, cell[i][1],
                                                           cell[i][2]))],
                       box |-> Res(XminPanics(bd, w) \/ YminPanics(bd, w),
                                   TRUE),
                       x |-> <<xmin(w), xmax(w)>>,
                       y |-> <<ymin(w), ymax(w)>>]
    /\ UNCHANGED <<words, crossings, state, changed, dict, pc, si, done,
                   panicked, lastOp, lastIx, unplaced, before, acted,
                   lastWord>>

GeomNext ==
    \/ CallIsCrossing
    \/ CallIsConflicting
    \/ CallFromFile
    \/ CallFootprint

GeomSpec == GeomInit /\ [][GeomNext]_vars

-----------------------------------------------------------------------------
\* The boards reached from from_file by place and solve_repeated alone.
PlaceSolveNext ==
    \/ Place
    \/ SolveBegin
    \/ SolveVisit
    \/ SolvePassEnd

PlaceSolveSpec == Init /\ [][PlaceSolveNext]_vars

-----------------------------------------------------------------------------
(* Small boards: one slot, and two crossing slots *)

\* How many words the dictionary file of a small board stores under a key.
MaxStored == 2

\* Slot A, and slot B whose last cell (2,3) is the second cell of A.
SlotA == [o |-> Right, x |-> 1, y |-> 3, length |-> 3, key |-> <<"k1">>]

SlotB == [o |-> Down, x |-> 2, y |-> 1, length |-> 3, key |-> <<"k2">>]

\* The grid files of the small boards: no line pre-fixes a value.
SmallFiles == { <<SlotA>>, <<SlotA, SlotB>> }

\* The lists a dictionary file may store under (key, 3): 1..MaxStored
\* different words.
StoredLists ==
    UNION {{l \in [1..n -> {AAB, BAB, ABA}] :
               \A i, j \in 1..n : i # j => l[i] # l[j]} : n \in 1..MaxStored}

SmallDict(l1, l2) == ("k1" :> (3 :> l1)) @@ ("k2" :> (3 :> l2))

\* The Vec<Word> that Board::from_file reads from a small grid file.
SmallLoaded(f) ==
    [n \in DOMAIN f |->
        from_parts(f[n].o, f[n].x, f[n].y, f[n].length, f[n].key, <<>>)]

\* Board::from_file on a small grid file.
SmallInit ==
    \E f \in SmallFiles, l1, l2 \in StoredLists :
        /\ ~HasConflict(SmallLoaded(f))
        /\ crossings = FindCrossings(SmallLoaded(f))
        /\ words = refresh_candidates(SmallLoaded(f),
                                      FindCrossings(SmallLoaded(f)),
                                      SmallDict(l1, l2))
        /\ state = Unsolved
        /\ changed = FALSE
        /\ dict = SmallDict(l1, l2)
        /\ pc = "idle"
        /\ si = 0
        /\ done = TRUE
        /\ panicked = FALSE
        /\ lastOp = "from_file"
        /\ lastIx = 0
        /\ unplaced = <<>>
        /\ before = SmallLoaded(f)
        /\ acted = FALSE
        /\ lastWord = <<>>
        /\ out = NoCall

\* solve_repeated, called any number of times.
SolveNext ==
    \/ SolveBegin
    \/ SolveVisit
    \/ SolvePassEnd

SmallSpec == SmallInit /\ [][SolveNext]_vars

-----------------------------------------------------------------------------
(* Dictionary::lookup, applied to a loaded dictionary *)

\* The hints a caller may pass: none, or a string of letters and wildcards
\* of any length up to MaxLength.
Hints ==
    {<<>>} \cup
    {<<h>> : h \in UNION {[1..n -> {"A", "B", Dot}] : n \in 0..MaxLength}}

\* Dictionary::from_file has loaded a dictionary; there is no board.
LookupInit ==
    /\ dict \in Dicts
    /\ words = <<>>
    /\ crossings = <<>>
    /\ state = Unsolved
    /\ changed = FALSE
    /\ pc = "dictionary"
    /\ si = 0
    /\ done = TRUE
    /\ panicked = FALSE
    /\ lastOp = "read"
    /\ lastIx = 0
    /\ unplaced = <<>>
    /\ before = <<>>
    /\ acted = FALSE
    /\ lastWord = <<>>
    /\ out = NoCall

\* Dictionary::lookup(key, length, opt_hint) for a key the dictionary holds.
CallLookup ==
    /\ pc = "dictionary"
    /\ out = NoCall
    /\ \E key \in DOMAIN dict, length \in 1..MaxLength, opt_hint \in Hints :
           out' = [fn |-> "lookup", key |-> key, length |-> length,
                   hint |-> opt_hint,
                   ret |-> Lookup(dict, key, length, opt_hint)]
    /\ UNCHANGED <<words, crossings, state, changed, dict, pc, si, done,
                   panicked, lastOp, lastIx, unplaced, before, acted,
                   lastWord>>

LookupSpec == LookupInit /\ [][CallLookup]_vars

-----------------------------------------------------------------------------
(* cli.rs: the commands place, solve and store board *)

\* Fault: Cli::place without the length test.
CliPlaceUnchecked ==
    \E key \in Indices(words), word \in PlaceWords :
        /\ Idle
        /\ LET r == BoardPlace(words, crossings, dict, key, <<word>>)
           IN  IF r.panics THEN Panic
               ELSE /\ words' = r.words
                    /\ changed' = TRUE
                    /\ dict' = IF words[key + 1].key # <<>>
                               THEN AddWord(dict, words[key + 1].key[1], word)
                               ELSE dict
                    /\ lastOp' = "place"
                    /\ lastIx' = key
                    /\ unplaced' = r.unplace
                    /\ before' = words
                    /\ acted' = FALSE
                    /\ lastWord' = <<word>>
                    /\ UNCHANGED <<crossings, state, pc, si, done, panicked,
                                   out>>

\* Cli::place(key, word): a word whose character count is not the slot's
\* length is refused; otherwise Board::place, and Dictionary::add_word when
\* the slot has a key.
CliPlace ==
    \E key \in Indices(words), word \in PlaceWords :
        /\ Idle
        /\ IF words[key + 1].length # Len(word)
           THEN /\ lastOp' = "invalid_length"
                /\ lastIx' = key
                /\ unplaced' = <<>>
                /\ before' = words
                /\ acted' = FALSE
                /\ lastWord' = <<word>>
                /\ UNCHANGED <<words, crossings, state, changed, dict, pc,
                               si, done, panicked, out>>
           ELSE LET r == BoardPlace(words, crossings, dict, key, <<word>>)
                IN  IF r.panics THEN Panic
                    ELSE /\ words' = r.words
                         /\ changed' = TRUE
                         /\ dict' = IF words[key + 1].key # <<>>
                                    THEN AddWord(dict, words[key + 1].key[1],
                                                 word)
                                    ELSE dict
                         /\ lastOp' = "place"
                         /\ lastIx' = key
                         /\ unplaced' = r.unplace
                         /\ before' = words
                         /\ acted' = FALSE
                         /\ lastWord' = <<word>>
                         /\ UNCHANGED <<crossings, state, pc, si, done,
                                        panicked, out>>

CliNext ==
    \/ CliPlace
    \/ SolveBegin
    \/ SolveVisit
    \/ SolvePassEnd
    \/ WriteToFile

CliSpec == SmallInit /\ [][CliNext]_vars

\* solve_repeated runs without suspension: once entered, its steps are taken.
SolveStep == SolveVisit \/ SolvePassEnd

FairSpec == Spec /\ WF_vars(SolveStep)

-----------------------------------------------------------------------------
(* Claims *)

Uncommitted(ws) == {n \in DOMAIN ws : ~ws[n].placed}

Returned == lastOp = "solve_return" /\ pc = "idle"

\* C1: whenever solve_repeated returns, no slot that is not placed has
\* exactly one candidate.
C1_FixedPoint ==
    Returned => \A n \in Uncommitted(words) : Len(words[n].candidates) # 1

\* C1 witness: solve_repeated has returned after placing a slot itself, and
\* a slot with two or more candidates is still not placed.
C1_Witness ==
    /\ Returned
    /\ acted
    /\ \E n \in Uncommitted(words) : Len(words[n].candidates) >= 2

\* C2: solve_repeated terminates: once entered, it reaches a for loop that
\* places nothing (done stays true to its end) and returns.
C2_Termination == (pc = "solve") ~> (Returned /\ done)

\* C2 witness: a for loop that placed a slot has ended, solve_repeated starts
\* the next one, and a slot with one candidate is waiting to be placed.
C2_Witness ==
    /\ pc = "solve"
    /\ lastOp = "solve_pass"
    /\ acted
    /\ \E n \in Uncommitted(words) : has_one_candidate(words[n])

\* The visiting orders: the permutations of the slot indices.
Orders(ws) ==
    {o \in [1..Len(ws) -> Indices(ws)] :
        \A j, k \in 1..Len(ws) : j # k => o[j] # o[k]}

\* What a solve leaves: which slots are placed, their values, the state.
Outcome(r) ==
    [placed |-> [n \in DOMAIN r.words |-> r.words[n].placed],
     value |-> [n \in DOMAIN r.words |->
                   IF r.words[n].placed THEN r.words[n].candidates ELSE <<>>],
     state |-> r.state,
     finished |-> r.finished]

\* The solve in index order emptied no candidate list: every slot it leaves
\* unplaced without a candidate had none before.
NoContradiction(ws, r) ==
    \A n \in DOMAIN ws :
        (~r.words[n].placed /\ r.words[n].candidates = <<>>)
            => ws[n].candidates = <<>>

\* C3 as claimed: on every board, solve_repeated leaves the same placed
\* slots, values and state whatever the order of the visits.
C3_AnyOrderSameOutcome ==
    Idle =>
        \A o \in Orders(words) :
            Outcome(SolveRepeated(words, crossings, dict, o))
                = Outcome(SolveRepeated(words, crossings, dict, IndexOrder(words)))

\* C3 amended: the outcome is the same for every order of the visits on the
\* boards on which the solve (in index order) empties no candidate list.
C3_SameOutcomeWithoutContradiction ==
    Idle =>
        LET r0 == SolveRepeated(words, crossings, dict, IndexOrder(words))
        IN  NoContradiction(words, r0) =>
                \A o \in Orders(words) :
                    Outcome(SolveRepeated(words, crossings, dict, o)) = Outcome(r0)

\* C3 witness: a board with two unplaced slots of one candidate each (either
\* may be placed first) whose solve empties no candidate list.
C3_Witness ==
    /\ Idle
    /\ Cardinality({n \in Uncommitted(words) : has_one_candidate(words[n])}) >= 2
    /\ NoContradiction(words,
           SolveRepeated(words, crossings, dict, IndexOrder(words)))

\* C4: when solve_repeated returns, the state is Solved exactly when no slot
\* is unplaced, Unsolvable exactly when some slot is unplaced and every
\* unplaced slot has no candidate, Ambiguous exactly when some unplaced slot
\* has two or more candidates.
C4_Classification ==
    Returned =>
        LET U == Uncommitted(words)
        IN  /\ (state = Solved) <=> (U = {})
            /\ (state = Unsolvable) <=>
                   (U # {} /\ \A n \in U : Len(words[n].candidates) = 0)
            /\ (state = Ambiguous) <=>
                   (\E n \in U : Len(words[n].candidates) >= 2)

\* C4 witness: solve_repeated placed a slot and returned with every slot
\* placed, the state being Solved.
C4_Witness ==
    /\ Returned
    /\ acted
    /\ Uncommitted(words) = {}
    /\ state = Solved

\* C5 as claimed: when solve_repeated returns and some unplaced slot has no
\* candidate, the state is Unsolvable.
C5_EmptyMeansUnsolvable ==
    Returned =>
        ((\E n \in Uncommitted(words) : words[n].candidates = <<>>)
            => state = Unsolvable)

\* C5 amended: when solve_repeated returns and some unplaced slot has no
\* candidate, the state is Unsolvable if no unplaced slot has two or more
\* candidates, and Ambiguous if one has; the call returns, it does not fail.
C5_EmptyAndNoChoiceMeansUnsolvable ==
    /\ ~panicked
    /\ Returned =>
        ((\E n \in Uncommitted(words) : words[n].candidates = <<>>)
            => IF \E m \in Uncommitted(words) : Len(words[m].candidates) >= 2
               THEN state = Ambiguous
               ELSE state = Unsolvable)

\* C5 witness: solve_repeated has returned, a keyed unplaced slot has no
\* candidate in the dictionary, another unplaced slot has two or more.
C5_Witness ==
    /\ Returned
    /\ \E n \in Uncommitted(words) :
           words[n].key # <<>> /\ words[n].candidates = <<>>
    /\ \E m \in Uncommitted(words) : Len(words[m].candidates) >= 2

\* C6: the state is Unsolved after from_file, and it is not Unsolved when
\* solve_repeated returns.
C6_UnsolvedOnlyInitially ==
    /\ lastOp = "from_file" => state = Unsolved
    /\ Returned => state \in {Solved, Unsolvable, Ambiguous}

\* C6 witness: solve_repeated placed a slot and returned with state
\* Unsolvable, having emptied the candidates of a keyed slot.
C6_Witness ==
    /\ Returned
    /\ acted
    /\ state = Unsolvable
    /\ \E n \in Uncommitted(words) : words[n].key # <<>>

\* C7: every placed slot has exactly one candidate, and no char_at assertion
\* or other panic has happened.
C7_PlacedHasOneCandidate ==
    /\ ~panicked
    /\ \A n \in DOMAIN words : words[n].placed => has_one_candidate(words[n])

\* C7 witness: a place on a slot has rolled a crossing slot back (unplace and
\* refresh), and other slots remain placed.
C7_Witness ==
    /\ lastOp = "place"
    /\ unplaced # <<>>
    /\ Cardinality({n \in DOMAIN words : words[n].placed}) >= 2

\* The lookup of a slot, the empty string standing for an absent key.
LookupOfSlot(ws, cr, d, n) ==
    Lookup(d, IF ws[n].key = <<>> THEN "" ELSE ws[n].key[1], ws[n].length,
           <<get_hints(ws, cr, n - 1)>>)

\* C8 as claimed: after refresh_candidates every unplaced slot, with a key or
\* without, has the candidates that the dictionary's lookup gives for its
\* key, length and hint.
C8_RefreshLooksUpEverySlot ==
    lastOp = "refresh" =>
        \A n \in Uncommitted(words) :
            words[n].candidates = LookupOfSlot(words, crossings, dict, n)

\* C8 amended: after refresh_candidates every unplaced slot with a key has
\* the candidates that the dictionary's lookup gives for its key, length and
\* hint; an unplaced slot without a key is not looked up and keeps the
\* candidates it had.
C8_RefreshLooksUpKeyedSlots ==
    lastOp = "refresh" =>
        \A n \in Uncommitted(words) :
            IF words[n].key # <<>>
            THEN words[n].candidates = LookupOfSlot(words, crossings, dict, n)
            ELSE words[n].candidates = before[n].candidates

\* C8 witness: refresh_candidates has run on a board with an unplaced keyed
\* slot whose hint carries a letter and matches a word, and an unplaced slot
\* without a key.
C8_Witness ==
    /\ lastOp = "refresh"
    /\ \E n \in Uncommitted(words) :
           /\ words[n].key # <<>>
           /\ get_hints(words, crossings, n - 1) # Dots(words[n].length)
           /\ words[n].candidates # <<>>
    /\ \E m \in Uncommitted(words) : words[m].key = <<>>

\* C9: a second refresh_candidates changes nothing: the board left by
\* refresh_candidates is a fixed point of it, and so is the refresh of any
\* board between two operations.
C9_RefreshIdempotent ==
    /\ lastOp = "refresh" =>
           refresh_candidates(words, crossings, dict) = words
    /\ Idle =>
           refresh_candidates(refresh_candidates(words, crossings, dict),
                              crossings, dict)
               = refresh_candidates(words, crossings, dict)

\* C9 witness: a refresh_candidates that changed the candidate set of a slot.
C9_Witness ==
    /\ lastOp = "refresh"
    /\ \E n \in DOMAIN words :
           Range(words[n].candidates) # Range(before[n].candidates)

\* The candidates of v whose character at bi is ch.
Matching(v, bi, ch) == {c \in Range(v) : NthChar(c, bi) = ch}

\* C10: after a place on slot A that rolled nothing back, every unplaced slot
\* B crossing A at (ai, bi) has exactly those of its previous candidates
\* whose character at bi is A's character at ai, each once.
C10_PlaceFiltersNeighbours ==
    (lastOp \in {"place", "solve_place"} /\ unplaced = <<>> /\ ~panicked) =>
        \A k \in DOMAIN crossings[lastIx] :
            LET b == crossings[lastIx][k][1]
                ai == crossings[lastIx][k][2]
                bi == crossings[lastIx][k][3]
                ch == char_at(words[lastIx + 1], ai)
            IN  ~words[b + 1].placed =>
                    /\ Range(words[b + 1].candidates)
                           = Matching(before[b + 1].candidates, bi, ch)
                    /\ Len(words[b + 1].candidates)
                           = Cardinality(Matching(before[b + 1].candidates, bi, ch))

\* C10 witness: a place that rolled nothing back and removed some but not
\* all candidates of an unplaced crossing slot.
C10_Witness ==
    /\ lastOp \in {"place", "solve_place"}
    /\ unplaced = <<>>
    /\ \E k \in DOMAIN crossings[lastIx] :
           LET b == crossings[lastIx][k][1]
           IN  /\ ~words[b + 1].placed
               /\ words[b + 1].candidates # <<>>
               /\ Len(words[b + 1].candidates) < Len(before[b + 1].candidates)

\* The placed crossing slots of slot a (in the words ws) whose character at
\* the shared cell differs from that of the value v given to slot a.
Mismatching(ws, cr, a, v) ==
    {cr[a][k][1] : k \in {j \in DOMAIN cr[a] :
        /\ ws[cr[a][j][1] + 1].placed
        /\ char_at(ws[cr[a][j][1] + 1], cr[a][j][3]) # v[cr[a][j][2] + 1]}}

\* C11: place(A, Some(v)) never fails; afterwards A is placed with the one
\* candidate v, the slots that were placed, cross A and differ from v at the
\* shared cell are unplaced, every other placed slot is as it was, and no
\* unplaced slot has become placed.
C11_RollbackOfMismatching ==
    /\ ~panicked
    /\ lastOp = "place" =>
        LET a == lastIx
            v == lastWord[1]
            M == Mismatching(before, crossings, a, v)
        IN  /\ words[a + 1].placed
            /\ words[a + 1].candidates = <<v>>
            /\ \A b \in Indices(words) \ {a} :
                   IF b \in M THEN ~words[b + 1].placed
                   ELSE IF before[b + 1].placed
                        THEN words[b + 1] = before[b + 1]
                        ELSE ~words[b + 1].placed
            /\ Range(unplaced) = M

\* C11 witness: a place whose two placed crossing slots both disagree with
\* the new value, while a further slot stays placed.
C11_Witness ==
    /\ lastOp = "place"
    /\ Len(unplaced) >= 2
    /\ \E n \in DOMAIN words : n # lastIx + 1 /\ words[n].placed

\* The words the dictionary holds for the key and length of slot n: what the
\* slot can hold at most; nothing for a slot without a key.
FullList(ws, d, n) ==
    IF ws[n].key = <<>> THEN {}
    ELSE Range(Lookup(d, ws[n].key[1], ws[n].length, <<>>))

\* No slot crossing slot n is placed.
NoPlacedNeighbour(ws, cr, n) ==
    \A k \in DOMAIN cr[n - 1] : ~ws[cr[n - 1][k][1] + 1].placed

\* A slot has just been rolled back: by unplace, or by a place that found a
\* placed crossing slot to disagree.
RolledBack ==
    \/ lastOp = "unplace"
    \/ lastOp \in {"place", "solve_place"} /\ unplaced # <<>>

\* C12: an unplaced slot never holds a candidate outside the dictionary's
\* list for its key and length, and after a rollback every unplaced slot
\* without a placed crossing slot holds that whole list: at least every
\* candidate it held, unplaced, at any earlier time.
C12_RegrowAfterRollback ==
    /\ \A n \in Uncommitted(words) :
           Range(words[n].candidates) \subseteq FullList(words, dict, n)
    /\ RolledBack =>
           \A n \in Uncommitted(words) :
               NoPlacedNeighbour(words, crossings, n) =>
                   Range(words[n].candidates) = FullList(words, dict, n)

\* C12 witness: an unplace after which a slot other than the unplaced one,
\* with no placed crossing slot left, holds candidates it did not hold just
\* before.
C12_Witness ==
    /\ lastOp = "unplace"
    /\ \E n \in Uncommitted(words) :
           /\ n # lastIx + 1
           /\ ~before[n].placed
           /\ NoPlacedNeighbour(words, crossings, n)
           /\ Range(words[n].candidates) # Range(before[n].candidates)
           /\ Range(before[n].candidates) \subseteq Range(words[n].candidates)

\* A place, by the user or by solve_repeated, that rolled nothing back.
PlacedWithoutRollback ==
    lastOp \in {"place", "solve_place"} /\ unplaced = <<>> /\ ~panicked

\* C13 as claimed: a place that rolls nothing back increases the number of
\* candidates of no slot.
C13_NoSlotGrows ==
    PlacedWithoutRollback =>
        \A n \in DOMAIN words :
            Len(words[n].candidates) <= Len(before[n].candidates)

\* C13 amended: a place that rolls nothing back leaves every slot other than
\* the placed one with a subset of its candidates, not more of them; the
\* placed slot ends with one candidate, whatever it had.
C13_NoOtherSlotGrows ==
    PlacedWithoutRollback =>
        /\ \A n \in DOMAIN words \ {lastIx + 1} :
               /\ Len(words[n].candidates) <= Len(before[n].candidates)
               /\ Range(words[n].candidates) \subseteq Range(before[n].candidates)
        /\ Len(words[lastIx + 1].candidates) = 1

\* C13 witness: a place without rollback on a slot that had no candidate,
\* which removed a candidate of a crossing slot.
C13_Witness ==
    /\ PlacedWithoutRollback
    /\ before[lastIx + 1].candidates = <<>>
    /\ \E n \in DOMAIN words \ {lastIx + 1} :
           Len(words[n].candidates) < Len(before[n].candidates)

\* C14 as claimed: after from_file, places and solves, every unplaced keyed
\* slot holds exactly the words that the dictionary's lookup gives for its
\* key, length and hint, each once: a refresh_candidates would change nothing.
C14_CandidatesComplete ==
    ~panicked =>
        \A n \in Uncommitted(words) :
            words[n].key # <<>> =>
                /\ Range(words[n].candidates)
                       = Range(LookupOfSlot(words, crossings, dict, n))
                /\ Len(words[n].candidates)
                       = Len(LookupOfSlot(words, crossings, dict, n))

\* C15: after from_file, places and solves, every candidate of an unplaced
\* slot has, at each offset shared with a placed crossing slot, the character
\* of that slot.
C15_CandidatesSound ==
    /\ ~panicked
    /\ \A n \in Uncommitted(words) :
           \A k \in DOMAIN crossings[n - 1] :
               LET b == crossings[n - 1][k][1]
                   ai == crossings[n - 1][k][2]
                   bi == crossings[n - 1][k][3]
               IN  words[b + 1].placed =>
                       \A c \in Range(words[n].candidates) :
                           NthChar(c, ai) = char_at(words[b + 1], bi)

\* C15 witness: a place has left an unplaced crossing slot with two or more
\* candidates.
C15_Witness ==
    /\ lastOp = "place"
    /\ \E k \in DOMAIN crossings[lastIx] :
           /\ ~words[crossings[lastIx][k][1] + 1].placed
           /\ Len(words[crossings[lastIx][k][1] + 1].candidates) >= 2

\* C16: is_crossing(A, B) and is_crossing(B, A) have the same outcome, for
\* every two slots and in both builds.
C16_CrossingSymmetric ==
    out.fn = "is_crossing" => out.ab = out.ba

\* C16 witness: is_crossing returns true in both orders for a Left or Up
\* slot and a slot crossing it.
C16_Witness ==
    /\ out.fn = "is_crossing"
    /\ out.ab.value
    /\ out.ba.value
    /\ is_reversed(words[1].o)

\* C17: every entry (b, ai, bi) of the crossing index of a has ai and bi
\* within the lengths of a and b, and both address the same cell.
C17_OffsetsAddressSharedCell ==
    (out.fn = "from_file" /\ out.outcome = "ok") =>
        \A a \in Indices(words) :
            \A k \in DOMAIN crossings[a] :
                LET b == crossings[a][k][1]
                    ai == crossings[a][k][2]
                    bi == crossings[a][k][3]
                IN  /\ ai < words[a + 1].length
                    /\ bi < words[b + 1].length
                    /\ position_at_index(words[a + 1], ai)
                           = position_at_index(words[b + 1], bi)

\* C17 witness: from_file has indexed the crossing of a Left slot and an Up
\* slot at offsets that are not 0.
C17_Witness ==
    /\ out.fn = "from_file"
    /\ out.outcome = "ok"
    /\ words[1].o = Left
    /\ words[2].o = Up
    /\ crossings[0] # <<>>
    /\ crossings[0][1][2] > 0
    /\ crossings[0][1][3] > 0

\* The cells of a slot.
Cells(w) == {position_at_index(w, i) : i \in 0..(w.length - 1)}

\* The reference: the slots are not parallel and share exactly one cell.
SharesOneCell(a, b) ==
    /\ ~same_or_opposite_direction(a.o, b.o)
    /\ Cardinality(Cells(a) \cap Cells(b)) = 1

\* C18 as claimed: is_crossing(A, B) returns true exactly when A and B are
\* not parallel and share exactly one cell.
C18_CrossingIsSharedCell ==
    out.fn = "is_crossing" =>
        /\ ~out.ab.panics
        /\ out.ab.value <=> SharesOneCell(words[1], words[2])

\* What holds of C18: whenever is_crossing returns, in either build, it
\* returns true exactly when the slots are not parallel and share one cell;
\* a release build always returns.
CrossingIsSharedCellWhenReturned ==
    out.fn = "is_crossing" =>
        /\ out.build = Release => ~out.ab.panics
        /\ ~out.ab.panics =>
               (out.ab.value <=> SharesOneCell(words[1], words[2]))

\* The first and last coordinate of a slot along its own line.
Lo(w) == IF is_horizontal(w.o) THEN xmin(w) ELSE ymin(w)

Hi(w) == IF is_horizontal(w.o) THEN xmax(w) ELSE ymax(w)

\* The row of a horizontal slot, the column of a vertical one.
Line(w) == IF is_horizontal(w.o) THEN w.y ELSE w.x

\* Parallel slots on the same line, one starting in the cell after the
\* other's last.
AdjacentEndToEnd(a, b) ==
    /\ same_or_opposite_direction(a.o, b.o)
    /\ Line(a) = Line(b)
    /\ Hi(a) + 1 = Lo(b) \/ Hi(b) + 1 = Lo(a)

\* Parallel slots on neighbouring lines whose ranges along the line overlap.
SideBySide(a, b) ==
    /\ same_or_opposite_direction(a.o, b.o)
    /\ Line(a) + 1 = Line(b) \/ Line(b) + 1 = Line(a)
    /\ Lo(a) <= Hi(b)
    /\ Lo(b) <= Hi(a)

\* The arithmetic of is_conflicting(a, b) leaves the unsigned range: b's
\* bounding box starts in column 0 or row 0 (b_xmin - 1, b_ymin - 1), or a
\* is a Left or Up slot that ends there and the build checks xmin and ymin.
LeavesUnsigned(bd, a, b) ==
    \/ xmin(b) = 0
    \/ ymin(b) = 0
    \/ XminPanics(bd, a)
    \/ YminPanics(bd, a)

\* C19 as claimed: is_conflicting returns false for two parallel slots
\* that are adjacent end to end on the same line.
C19_SameLineAdjacentAllowed ==
    (out.fn = "is_conflicting" /\ AdjacentEndToEnd(words[1], words[2])) =>
        /\ ~out.ab.panics
        /\ ~out.ab.value

\* C19 amended: for two parallel slots adjacent end to end on the same line
\* is_conflicting returns true; only when its arithmetic leaves the unsigned
\* range does a release build return false, and a debug build panics.
C19_SameLineAdjacentConflicts ==
    (out.fn = "is_conflicting" /\ AdjacentEndToEnd(words[1], words[2])) =>
        out.ab = IF LeavesUnsigned(out.build, words[1], words[2])
                 THEN Res(out.build = Debug, FALSE)
                 ELSE Res(FALSE, TRUE)

\* C19 witness: is_conflicting returns true, in both orders, for two slots
\* adjacent end to end on the same line.
C19_Witness ==
    /\ out.fn = "is_conflicting"
    /\ AdjacentEndToEnd(words[1], words[2])
    /\ out.ab.value
    /\ out.ba.value

\* C20 as claimed: is_conflicting returns true for two parallel slots side
\* by side on neighbouring lines.
C20_SideBySideConflicts ==
    (out.fn = "is_conflicting" /\ SideBySide(words[1], words[2])) =>
        /\ ~out.ab.panics
        /\ out.ab.value

\* C20 amended: for two parallel slots on different lines is_conflicting
\* never returns true; side by side on neighbouring lines it returns false,
\* except that a debug build panics when the arithmetic leaves the unsigned
\* range.
C20_SideBySideAllowed ==
    out.fn = "is_conflicting" =>
        /\ (/\ same_or_opposite_direction(words[1].o, words[2].o)
            /\ Line(words[1]) # Line(words[2])) => ~out.ab.value
        /\ SideBySide(words[1], words[2]) =>
               out.ab = Res(/\ out.build = Debug
                            /\ LeavesUnsigned(out.build, words[1], words[2]),
                            FALSE)

\* C20 witness: is_conflicting returns false, in both orders and without
\* panic, for two slots of length 2 or more side by side.
C20_Witness ==
    /\ out.fn = "is_conflicting"
    /\ SideBySide(words[1], words[2])
    /\ words[1].length >= 2
    /\ words[2].length >= 2
    /\ ~out.ab.panics /\ ~out.ab.value
    /\ ~out.ba.panics /\ ~out.ba.value

\* The bounding box of b is strictly separated from that of a along both
\* axes: b is entirely above or below a and entirely left or right of it.
Diagonal(a, b) ==
    /\ ymax(b) < ymin(a) \/ ymin(b) > ymax(a)
    /\ xmax(b) < xmin(a) \/ xmin(b) > xmax(a)

\* The bounding boxes touch at a corner only.
CornerTouch(a, b) ==
    /\ ymax(b) + 1 = ymin(a) \/ ymin(b) = ymax(a) + 1
    /\ xmax(b) + 1 = xmin(a) \/ xmin(b) = xmax(a) + 1

\* C21: for two non-crossing slots whose bounding boxes are strictly
\* separated along both axes, a corner touch included, is_conflicting never
\* returns true, and a release build returns false.
C21_DiagonalAllowed ==
    (/\ out.fn = "is_conflicting"
     /\ ~is_crossing(words[1], words[2])
     /\ Diagonal(words[1], words[2])) =>
        /\ ~out.ab.value
        /\ ~out.ba.value
        /\ out.build = Release => (~out.ab.panics /\ ~out.ba.panics)

\* C21 witness: is_conflicting returns false, in both orders, for two slots
\* that are not parallel and touch at a corner only.
C21_Witness ==
    /\ out.fn = "is_conflicting"
    /\ CornerTouch(words[1], words[2])
    /\ ~same_or_opposite_direction(words[1].o, words[2].o)
    /\ words[1].length >= 2
    /\ words[2].length >= 2
    /\ ~out.ab.panics /\ ~out.ab.value
    /\ ~out.ba.panics /\ ~out.ba.value

\* C22: from_file completes only if is_conflicting is false for every ordered
\* pair of distinct slots, and aborts if it is true for some pair; a board
\* that was built has no conflicting pair.
C22_NoConflictAfterConstruction ==
    out.fn = "from_file" =>
        /\ out.outcome = "ok" =>
               /\ ~HasConflict(words)
               /\ lastOp = "from_file"
               /\ ~panicked
        /\ HasConflict(words) =>
               /\ out.outcome # "ok"
               /\ panicked
               /\ lastOp = "read"
               /\ \A a \in DOMAIN crossings : crossings[a] = <<>>

\* C22 witness: from_file has aborted on two slots that conflict in one
\* order only.
C22_Witness ==
    /\ out.fn = "from_file"
    /\ out.outcome = "conflict"
    /\ panicked
    /\ ~is_conflicting(words[1], words[2])
    /\ is_conflicting(words[2], words[1])

\* What is_conflicting computes when b_xmax + 1, b_xmin - 1, b_ymax + 1 and
\* b_ymin - 1 are taken in the integers instead of the unsigned type.
ConflictingExact(a, b) ==
    LET b_is_over == ymax(b) < ymin(a)
        b_is_under == ymin(b) > ymax(a)
        b_is_left == xmax(b) < xmin(a)
        b_is_right == xmin(b) > xmax(a)
    IN  IF is_crossing(a, b) THEN FALSE
        ELSE IF \/ b_is_over /\ (b_is_left \/ b_is_right)
                \/ b_is_under /\ (b_is_left \/ b_is_right) THEN FALSE
        ELSE IF \/ xmax(b) + 1 < xmin(a)
                \/ xmin(b) - 1 > xmax(a)
                \/ ymax(b) + 1 < ymin(a)
                \/ ymin(b) - 1 > ymax(a) THEN FALSE
        ELSE IF is_horizontal(a.o) /\ is_horizontal(b.o) THEN a.y = b.y
        ELSE IF is_vertical(a.o) /\ is_vertical(b.o) THEN a.x = b.x
        ELSE TRUE

\* C23 as claimed: for slots inside the non-negative grid is_conflicting
\* does not panic and returns what it returns without wrapped values.
C23_NoArithmeticFailure ==
    out.fn = "is_conflicting" =>
        /\ ~out.ab.panics
        /\ out.ab.value <=> ConflictingExact(words[1], words[2])

\* The board has two slots, and the dictionary stores two words for each.
TwoCandidatesEach ==
    /\ Len(words) = 2
    /\ \A n \in DOMAIN words : Cardinality(FullList(words, dict, n)) = 2

\* The pairs of stored words, one for slot 0 and one for slot 1, that agree
\* at the cell the two slots share.
AgreeingPairs ==
    LET ai == crossings[0][1][2]
        bi == crossings[0][1][3]
    IN  {p \in FullList(words, dict, 1) \X FullList(words, dict, 2) :
            p[1][ai + 1] = p[2][bi + 1]}

\* C24 as claimed: on a board of two crossing keyed slots with two
\* candidates each, solve_repeated ends Solved with both slots committed to
\* agreeing words when a pair of candidates agrees at the shared cell, and
\* Unsolvable when none does.
C24_SolvedIffCandidatesAgree ==
    (Returned /\ TwoCandidatesEach) =>
        IF AgreeingPairs # {}
        THEN /\ state = Solved
             /\ \A n \in DOMAIN words : words[n].placed
             /\ <<words[1].candidates[1], words[2].candidates[1]>>
                    \in AgreeingPairs
        ELSE state = Unsolvable

\* C24 amended: on such a board solve_repeated commits nothing, removes no
\* candidate and ends Ambiguous, whether or not candidates agree.
C24_TwoCandidatesEachIsAmbiguous ==
    (Returned /\ TwoCandidatesEach) =>
        /\ state = Ambiguous
        /\ ~acted
        /\ ~changed
        /\ \A n \in DOMAIN words :
               /\ ~words[n].placed
               /\ Range(words[n].candidates) = FullList(words, dict, n)

\* C24 witness: solve_repeated has returned Ambiguous on a two-slot board
\* with two candidates each of which no pair agrees.
C24_Witness ==
    /\ Returned
    /\ TwoCandidatesEach
    /\ AgreeingPairs = {}
    /\ state = Ambiguous

\* C25: on a board of one keyed slot for which the dictionary holds exactly
\* one word, solve_repeated commits the slot to that word and the status is
\* Solved.
C25_IsolatedSlotSolved ==
    (/\ Returned
     /\ Len(words) = 1
     /\ Cardinality(FullList(words, dict, 1)) = 1) =>
        /\ state = Solved
        /\ words[1].placed
        /\ Len(words[1].candidates) = 1
        /\ Range(words[1].candidates) = FullList(words, dict, 1)

\* C25 witness: the call that has just returned committed the single slot.
C25_Witness ==
    /\ Returned
    /\ acted
    /\ Len(words) = 1
    /\ crossings[0] = <<>>
    /\ Cardinality(FullList(words, dict, 1)) = 1
    /\ state = Solved

\* C26 as claimed: after a place or an unplace the status is Unsolved.
C26_MutationResetsStatus ==
    lastOp \in {"place", "unplace"} => state = Unsolved

\* C26 amended: the status changes only when solve_repeated returns; place,
\* unplace, refresh_candidates and write_to_file leave it as the last
\* solve_repeated set it.
C26_StatusKeptUntilSolve ==
    [][state' # state => lastOp' = "solve_return"]_vars

\* C26 witness: after solve_repeated set Solved, a place has rolled a slot
\* back, and the status is still Solved.
C26_Witness ==
    /\ lastOp = "place"
    /\ unplaced # <<>>
    /\ state = Solved
    /\ Uncommitted(words) # {}

\* The step is a Board::place that returned: called directly, or by
\* solve_repeated.
PlaceStep ==
    /\ lastOp' \in {"place", "solve_place"}
    /\ panicked' = panicked

\* The step is a Board::write_to_file.
WriteStep == lastOp' = "write_to_file" /\ panicked' = panicked

\* C27: changed is false after construction, every place sets it, every
\* write_to_file clears it, and nothing else touches it (a solve_repeated
\* that commits nothing included): it is true iff a place has run since
\* construction or the last write_to_file.
C27_DirtyFlag ==
    /\ (lastOp = "from_file" => ~changed)
    /\ [][changed' = IF PlaceStep THEN TRUE
                     ELSE IF WriteStep THEN FALSE
                     ELSE changed]_vars

\* C27 witness: solve_repeated has returned without a commit and changed is
\* false, although more slots are committed than a grid file pre-fixes: they
\* were placed before a write_to_file.
C27_Witness ==
    /\ Returned
    /\ ~acted
    /\ ~changed
    /\ Cardinality({n \in DOMAIN words : words[n].placed}) > MaxPrefixed

\* The step is a place command that returned, given a word whose character
\* count is not the length of the slot.
InvalidPlaceStep ==
    /\ lastWord' # <<>>
    /\ lastOp' \in {"place", "invalid_length"}
    /\ panicked' = panicked
    /\ Len(lastWord'[1]) # words[lastIx' + 1].length

\* C28: the place command refuses a word whose character count is not the
\* slot's length and leaves the board and the dictionary as they were; the
\* words it does place have the slot's length and are stored as given.
C28_InvalidCommitRejected ==
    /\ [](lastOp = "place" =>
            /\ Len(lastWord[1]) = words[lastIx + 1].length
            /\ words[lastIx + 1].candidates = lastWord)
    /\ [][InvalidPlaceStep =>
            /\ lastOp' = "invalid_length"
            /\ UNCHANGED <<words, crossings, state, changed, dict>>]_vars

\* C28 witness: a word shorter than the slot was refused after an earlier
\* place had changed the board.
C28_Witness ==
    /\ lastOp = "invalid_length"
    /\ Len(lastWord[1]) < words[lastIx + 1].length
    /\ changed
    /\ ~words[lastIx + 1].placed

\* The committed slots that cross slot a in its cell at offset i, each with
\* its own offset of that cell.
CommittedAt(ws, a, i) ==
    {p \in Indices(ws) \X (0..(MaxLength - 1)) :
        /\ p[1] # a
        /\ ws[p[1] + 1].placed
        /\ p[2] < ws[p[1] + 1].length
        /\ is_crossing(ws[a + 1], ws[p[1] + 1])
        /\ position_at_index(ws[p[1] + 1], p[2])
               = position_at_index(ws[a + 1], i)}

\* C29: the hint of an uncommitted slot has the slot's length; at each
\* offset it carries the character, at the shared cell, of the committed
\* slot crossing there, and '.' where no committed slot crosses; the hint
\* of a committed slot is its fixed value.
C29_HintString ==
    \A a \in Indices(words) :
        /\ ~HintsPanic(words, crossings, a)
        /\ IF words[a + 1].placed
           THEN get_hints(words, crossings, a) = words[a + 1].candidates[1]
           ELSE /\ Len(get_hints(words, crossings, a)) = words[a + 1].length
                /\ \A i \in 0..(words[a + 1].length - 1) :
                       IF CommittedAt(words, a, i) = {}
                       THEN get_hints(words, crossings, a)[i + 1] = Dot
                       ELSE \A p \in CommittedAt(words, a, i) :
                                get_hints(words, crossings, a)[i + 1]
                                    = words[p[1] + 1].candidates[1][p[2] + 1]

\* C29 witness: an uncommitted slot is crossed by two committed slots at
\* different offsets of theirs, and its hint has a letter and a '.'.
C29_Witness ==
    \E a \in Indices(words) :
        /\ ~words[a + 1].placed
        /\ Dot \in Range(get_hints(words, crossings, a))
        /\ \E i, j \in 0..(words[a + 1].length - 1) :
               /\ i # j
               /\ \E p \in CommittedAt(words, a, i) : p[2] # i
               /\ CommittedAt(words, a, j) # {}

\* The words the dictionary stores under (key, length), in stored order.
Stored(d, key, length) ==
    IF key \in DOMAIN d /\ length \in DOMAIN d[key] THEN d[key][length]
    ELSE <<>>

\* s holds exactly the words of the set kept, once each and in the order
\* they have in t (the members of t are different words).
KeptInOrder(s, t, kept) ==
    /\ Range(s) = kept
    /\ \A i, j \in DOMAIN s :
           i < j => \E k, l \in DOMAIN t : k < l /\ t[k] = s[i] /\ t[l] = s[j]

\* C30: for a key the dictionary holds, lookup with a hint of the given
\* length returns, in stored order, exactly the words stored under
\* (key, length) that have at every position the hint's character or a '.'
\* in the hint; with no hint it returns all words stored under (key, length).
\* (A hint of another length is compared up to the shorter of hint and word.)
C30_LookupMatches ==
    out.fn = "lookup" =>
        LET t == Stored(dict, out.key, out.length)
        IN  IF out.hint = <<>> THEN out.ret = t
            ELSE LET h == out.hint[1]
                 IN  /\ Len(h) = out.length =>
                            KeptInOrder(out.ret, t,
                                {w \in Range(t) :
                                    \A k \in 1..out.length :
                                        h[k] = Dot \/ h[k] = w[k]})
                     /\ KeptInOrder(out.ret, t,
                            {w \in Range(t) :
                                \A k \in (DOMAIN w) \cap (DOMAIN h) :
                                    h[k] = Dot \/ h[k] = w[k]})

\* C30 witness: a hint with a letter and a wildcard has selected two of
\* three stored words.
C30_Witness ==
    /\ out.fn = "lookup"
    /\ out.hint # <<>>
    /\ Len(out.hint[1]) = out.length
    /\ Dot \in Range(out.hint[1])
    /\ Range(out.hint[1]) # {Dot}
    /\ Len(Stored(dict, out.key, out.length)) = 3
    /\ Len(out.ret) = 2

\* The fields of a slot that describe its place in the grid and its clue.
Geometry(w) == <<w.o, w.x, w.y, w.length, w.key>>

\* C31: no step of refresh_candidates, place, unplace, write_to_file or
\* solve_repeated changes the crossing index, the number of slots, or the
\* orientation, anchor, length or key of a slot.
C31_GeometryFrozen ==
    [][/\ crossings' = crossings
       /\ DOMAIN words' = DOMAIN words
       /\ \A n \in DOMAIN words : Geometry(words'[n]) = Geometry(words[n])]_vars

\* C31 witness: a place has rolled a slot back and refreshed the candidates,
\* and the crossing index is still the one the slots' geometry gives.
C31_Witness ==
    /\ lastOp = "place"
    /\ unplaced # <<>>
    /\ \E n \in DOMAIN words : words[n].candidates # before[n].candidates
    /\ crossings = FindCrossings(words)
    /\ \A n \in DOMAIN words : Geometry(words[n]) = Geometry(before[n])

\* What C32 says of a footprint, whenever the geometry functions return.
FootprintAsClaimed ==
    LET w == words[1]
    IN  /\ \A i \in DOMAIN out.cells :
               out.inside[i].panics \/ out.inside[i].value
        /\ out.cells[0] = <<w.x, w.y>>
        /\ \A i, j \in DOMAIN out.cells :
               i # j => out.cells[i] # out.cells[j]
        /\ Cardinality((out.x[1]..out.x[2]) \X (out.y[1]..out.y[2]))
               = w.length
        /\ {out.cells[i] : i \in DOMAIN out.cells}
               = (out.x[1]..out.x[2]) \X (out.y[1]..out.y[2])

\* C32 as claimed: for every slot of positive length inside the grid, every
\* offset's cell passes position_in_word, offset 0 is the anchor, the cells
\* are pairwise different, and the bounding box holds exactly length cells.
C32_FootprintGeometry ==
    out.fn = "footprint" =>
        /\ FootprintAsClaimed
        /\ ~out.box.panics
        /\ \A i \in DOMAIN out.inside : ~out.inside[i].panics

\* What holds of C32: a release build computes the footprint as claimed, and
\* so does a debug build whenever it returns.
FootprintWhenReturned ==
    out.fn = "footprint" =>
        /\ FootprintAsClaimed
        /\ out.build = Release =>
               /\ ~out.box.panics
               /\ \A i \in DOMAIN out.inside : ~out.inside[i].panics

\* Any two committed slots that cross carry the same character at the cell
\* they share.
CommittedAgree(ws, cr) ==
    \A a \in Indices(ws) :
        \A k \in DOMAIN cr[a] :
            LET b == cr[a][k][1]
            IN  (ws[a + 1].placed /\ ws[b + 1].placed) =>
                    /\ CharAtOk(ws[a + 1], cr[a][k][2])
                    /\ CharAtOk(ws[b + 1], cr[a][k][3])
                    /\ char_at(ws[a + 1], cr[a][k][2])
                           = char_at(ws[b + 1], cr[a][k][3])

\* C33: on a board whose committed slots agree, every step of place (its
\* rollbacks included) and of solve_repeated leaves a board whose committed
\* slots agree; the board from_file builds from agreeing pre-fixed values
\* is such a board.
C33_CommittedSlotsAgree ==
    [][CommittedAgree(words, crossings) =>
           CommittedAgree(words', crossings')]_vars

\* C33 witness: a place has rolled back a slot that disagreed and kept a
\* committed crossing slot that agrees.
C33_Witness ==
    /\ lastOp = "place"
    /\ unplaced # <<>>
    /\ CommittedAgree(words, crossings)
    /\ ~CommittedAgree([before EXCEPT ![lastIx + 1] = words[lastIx + 1]],
                       crossings)
    /\ \E k \in DOMAIN crossings[lastIx] :
           words[crossings[lastIx][k][1] + 1].placed

\* C34: a commit made inside solve_repeated rolls nothing back: it commits a
\* slot that was not committed, and every slot committed before keeps its
\* flag and its value.
C34_SolverNeverRollsBack ==
    lastOp = "solve_place" =>
        /\ unplaced = <<>>
        /\ ~before[lastIx + 1].placed
        /\ words[lastIx + 1].placed
        /\ \A n \in DOMAIN words : before[n].placed => words[n] = before[n]

\* C34 witness: solve_repeated has committed a slot that crosses a slot
\* committed before.
C34_Witness ==
    /\ lastOp = "solve_place"
    /\ \E k \in DOMAIN crossings[lastIx] :
           before[crossings[lastIx][k][1] + 1].placed

\* The uncommitted slots without a key.
UncommittedKeyless(ws) == {n \in Uncommitted(ws) : ws[n].key = <<>>}

\* C35: an uncommitted slot without a key has no candidate; solve_repeated
\* never commits a slot without a key, and does not return Solved while
\* such a slot is uncommitted.
C35_KeylessNeverFilled ==
    /\ \A n \in UncommittedKeyless(words) : words[n].candidates = <<>>
    /\ lastOp = "solve_place" => words[lastIx + 1].key # <<>>
    /\ (Returned /\ UncommittedKeyless(words) # {}) => state # Solved

\* C35 witness: a slot without a key that was committed has been rolled
\* back by a place and has no candidate.
C35_Witness ==
    /\ lastOp = "place"
    /\ \E n \in UncommittedKeyless(words) :
           /\ before[n].placed
           /\ n - 1 \in Range(unplaced)
           /\ words[n].candidates = <<>>

\* C36 as claimed: whenever the status is Solved every slot is committed.
C36_SolvedMeansAllCommitted ==
    state = Solved => Uncommitted(words) = {}

\* C36 amended: when solve_repeated returns, the status is Solved iff every
\* slot is committed; a later place that rolls a slot back leaves the
\* status Solved until solve_repeated runs again.
C36_SolvedAtReturn ==
    Returned => (state = Solved <=> Uncommitted(words) = {})

\* C36 witness: solve_repeated has committed the last slots and returned
\* Solved.
C36_Witness ==
    /\ Returned
    /\ acted
    /\ state = Solved
    /\ Uncommitted(words) = {}

\* C37: a second solve_repeated called when the first has returned places
\* nothing and leaves the slots and the status as they are; placing
\* nothing, it leaves changed as it is.
C37_SolveIdempotent ==
    Returned =>
        LET r == SolveRepeated(words, crossings, dict, IndexOrder(words))
        IN  /\ r.finished
            /\ r.words = words
            /\ r.state = state
            /\ \A i \in Indices(words) :
                   ~Visit(words, crossings, dict, i, TRUE).placed

\* C37 witness: the call that has returned committed a slot and left
\* another uncommitted.
C37_Witness ==
    /\ Returned
    /\ acted
    /\ changed
    /\ Uncommitted(words) # {}
    /\ state = Ambiguous

\* No two entries of the crossing index of slot a have the same offset in a.
OffsetsDistinct(cr, a) ==
    \A j, k \in DOMAIN cr[a] : j # k => cr[a][j][2] # cr[a][k][2]

\* C38: when from_file has built the board, no two entries of the crossing
\* index of a slot have the same offset in that slot.
C38_OneCrossingPerCell ==
    lastOp = "from_file" =>
        \A a \in Indices(words) : OffsetsDistinct(crossings, a)

\* With exact arithmetic two slots crossing a third one at the same cell lie
\* on one line and conflict: from_file builds no board where the conflict
\* test of some ordered pair differs from the exact one and, where it builds
\* one, the offsets of every crossing index are distinct.
OneCrossingPerCellWhenExact ==
    (/\ lastOp = "from_file"
     /\ \A a, b \in Indices(words) :
            a # b => (is_conflicting(words[a + 1], words[b + 1])
                          <=> ConflictingExact(words[a + 1], words[b + 1])))
        => \A a \in Indices(words) : OffsetsDistinct(crossings, a)

-----------------------------------------------------------------------------
(* cli.rs: the command line of the shell.  A line is a sequence of        *)
(* characters; positions are counted from 0 as in the code.               *)

Quote == "'"

Space == " "

\* CommandLineIterator::find_from_to: the position of the first c in
\* l[from..to], or -1 for None.
RECURSIVE find_from_to(_, _, _, _)
find_from_to(l, from, to, c) ==
    IF from >= to THEN -1
    ELSE IF l[from + 1] = c THEN from
    ELSE find_from_to(l, from + 1, to, c)

\* CommandLineIterator::find_from: the same in l[from..].
find_from(l, from, c) == find_from_to(l, from, Len(l), c)

\* CommandLineIterator::slice, l[from..to].
slice(l, from, to) == SubSeq(l, from + 1, to)

\* CommandLineIterator::slice_from, l[from..].
slice_from(l, from) == SubSeq(l, from + 1, Len(l))

\* CommandLineIterator::char_is
char_is(l, pos, c) == pos < Len(l) /\ l[pos + 1] = c

\* CommandPart::new
NewPart(s) == [slice |-> s, is_quoted |-> Space \in Range(s),
               is_error |-> FALSE]

\* CommandPart::error
ErrorPart(s) == [slice |-> s, is_quoted |-> FALSE, is_error |-> TRUE]

\* CommandLineIterator::next at position pos: the part (<<>> for None) and
\* the position it leaves.
next(l, pos) ==
    IF pos > Len(l) THEN [part |-> <<>>, position |-> pos]
    ELSE IF pos = Len(l)
    THEN [part |-> <<NewPart(<<>>)>>, position |-> pos + 1]
    ELSE IF char_is(l, pos, Quote)
    THEN LET nextpos == find_from(l, pos + 1, Quote)
         IN  IF nextpos # -1
             THEN IF nextpos + 1 # Len(l)
                  THEN IF char_is(l, nextpos + 1, Space)
                       THEN [part |-> <<NewPart(slice(l, pos + 1, nextpos))>>,
                             position |-> nextpos + 2]
                       ELSE [part |-> <<ErrorPart(slice(l, pos, nextpos))>>,
                             position |-> nextpos + 1]
                  ELSE [part |-> <<NewPart(slice(l, pos + 1, nextpos))>>,
                        position |-> nextpos + 2]
             ELSE [part |-> <<NewPart(slice_from(l, pos + 1))>>,
                   position |-> Len(l) + 1]
    ELSE LET nextpos == find_from(l, pos, Space)
         IN  IF nextpos # -1
             THEN IF find_from_to(l, pos, nextpos, Quote) # -1
                  THEN [part |-> <<ErrorPart(slice(l, pos, nextpos))>>,
                        position |-> nextpos + 1]
                  ELSE [part |-> <<NewPart(slice(l, pos, nextpos))>>,
                        position |-> nextpos + 1]
             ELSE IF find_from(l, pos, Quote) # -1
                  THEN [part |-> <<ErrorPart(slice_from(l, pos))>>,
                        position |-> Len(l) + 1]
                  ELSE [part |-> <<NewPart(slice_from(l, pos))>>,
                        position |-> Len(l) + 1]

\* The two error messages: "Bad command", and "Bad_command: " followed by
\* the slice of an error part (CommandPart::to_string).
BadCommand == <<"Bad command">>

BadPart(s) == <<"Bad_command: ", s>>

\* CommandLineIterator::next_or_error: the string of the next part, or the
\* error; err is <<>> for Ok.
next_or_error(l, pos) ==
    LET n == next(l, pos)
    IN  IF n.part = <<>>
        THEN [err |-> <<BadCommand>>, value |-> <<>>, position |-> n.position]
        ELSE IF n.part[1].is_error
        THEN [err |-> <<BadPart(n.part[1].slice)>>, value |-> <<>>,
              position |-> n.position]
        ELSE [err |-> <<>>, value |-> n.part[1].slice,
              position |-> n.position]

\* Cli::parse_and_execute, the match on the first part: the arm taken, named
\* by the method it calls.
MatchArm(cmd) ==
    CASE cmd = <<"s", "o", "l", "v", "e">> -> "solve"
      [] cmd = <<"w", "o", "r", "d", "s">> -> "show_words"
      [] cmd = <<"p", "l", "a", "c", "e", "d">> -> "show_words"
      [] cmd = <<"u", "n", "p", "l", "a", "c", "e", "d">> -> "show_words"
      [] cmd = <<"m", "i", "s", "s", "i", "n", "g">> -> "show_words"
      [] cmd = <<"a", "m", "b", "i", "g", "u", "o", "u", "s">> -> "show_words"
      [] cmd = <<"c", "r", "o", "s", "s", "i", "n", "g">> -> "show_crossing"
      [] cmd = <<"c", "a", "n", "d", "i", "d", "a", "t", "e", "s">> -> "show_candidates"
      [] cmd = <<"s", "o", "l", "u", "t", "i", "o", "n">> -> "show_solution"
      [] cmd = <<"b", "o", "a", "r", "d">> -> "show_board"
      [] cmd = <<"i", "n", "f", "o">> -> "info_word"
      [] cmd = <<"s", "e", "t">> -> "set"
      [] cmd = <<"p", "l", "a", "c", "e">> -> "place"
      [] cmd = <<"l", "o", "o", "k", "u", "p">> -> "lookup"
      [] cmd = <<"s", "t", "o", "r", "e">> -> "store"
      [] cmd = <<"a", "d", "d", " ">> -> "add_word"
      [] cmd = <<"h", "e", "l", "p">> -> "help"
      [] cmd = <<>> -> "nothing"
      [] OTHER -> "bad_command"

\* Cli::parse_and_execute on line l with dictionary d: the arm taken, the
\* result (<<>> for Ok(()), else the message that is printed) and the
\* dictionary it leaves.  The add arm takes two more parts and calls
\* Dictionary::add_word; the arms of help, words and the empty line take no
\* part and change nothing.
parse_and_execute(l, d) ==
    LET first == next_or_error(l, 0)
    IN  IF first.err # <<>>
        THEN [arm |-> "none", result |-> first.err, dict |-> d]
        ELSE LET arm == MatchArm(first.value)
             IN  IF arm = "bad_command"
                 THEN [arm |-> arm, result |-> <<BadCommand>>, dict |-> d]
                 ELSE IF arm = "add_word"
                 THEN LET key == next_or_error(l, first.position)
                          word == next_or_error(l, key.position)
                      IN  IF key.err # <<>>
                          THEN [arm |-> arm, result |-> key.err, dict |-> d]
                          ELSE IF word.err # <<>>
                          THEN [arm |-> arm, result |-> word.err, dict |-> d]
                          ELSE [arm |-> arm, result |-> <<>>,
                                dict |-> AddWord(d, key.value, word.value)]
                 ELSE [arm |-> arm, result |-> <<>>, dict |-> d]

\* The parts of the lines typed in the model.
CmdAdd == <<"a", "d", "d">>

CmdAddSpace == <<"a", "d", "d", " ">>

CmdHelp == <<"h", "e", "l", "p">>

CmdWords == <<"w", "o", "r", "d", "s">>

KeyK == <<"k">>

Quoted(s) == <<Quote>> \o s \o <<Quote>>

FirstParts == {CmdAdd, Quoted(CmdAdd), Quoted(CmdAddSpace), CmdHelp, CmdWords}

KeyParts == {KeyK, Quoted(KeyK)}

WordParts == {AAB, AB, Quoted(AAB)}

PartLists ==
    {<<f>> : f \in FirstParts}
        \cup {<<f, k>> : f \in FirstParts, k \in KeyParts}
        \cup {<<f, k, w>> : f \in FirstParts, k \in KeyParts, w \in WordParts}

\* The parts separated by one space.
RECURSIVE Join(_)
Join(ps) ==
    IF Len(ps) = 0 THEN <<>>
    ELSE IF Len(ps) = 1 THEN ps[1]
    ELSE ps[1] \o <<Space>> \o Join(Tail(ps))

\* The lines: the parts joined, with or without a space at the end, and the
\* empty line.
Lines ==
    {<<>>} \cup {Join(ps) \o t : ps \in PartLists, t \in {<<>>, <<Space>>}}

\* The dictionary when the line is typed: empty, or holding a word under k.
ShellDicts == { <<>>, (KeyK :> (3 :> <<BAB>>)) }

\* Cli::run has read a line.
ShellInit ==
    \E l \in Lines, d \in ShellDicts :
        /\ words = <<>>
        /\ crossings = <<>>
        /\ state = Unsolved
        /\ changed = FALSE
        /\ dict = d
        /\ pc = "shell"
        /\ si = 0
        /\ done = TRUE
        /\ panicked = FALSE
        /\ lastOp = "readline"
        /\ lastIx = 0
        /\ unplaced = <<>>
        /\ before = <<>>
        /\ acted = FALSE
        /\ lastWord = <<>>
        /\ out = [fn |-> "readline", line |-> l]

\* Cli::run calls parse_and_execute on the line.
CallParseAndExecute ==
    /\ pc = "shell"
    /\ out.fn = "readline"
    /\ LET r == parse_and_execute(out.line, dict)
       IN  /\ out' = [fn |-> "parse_and_execute", line |-> out.line,
                      arm |-> r.arm, result |-> r.result, dict |-> dict]
           /\ dict' = r.dict
    /\ lastOp' = "parse_and_execute"
    /\ UNCHANGED <<words, crossings, state, changed, pc, si, done, panicked,
                   lastIx, unplaced, before, acted, lastWord>>

ShellSpec == ShellInit /\ [][CallParseAndExecute]_vars

\* The word is stored under the key and its length.
Holds(d, key, word) ==
    /\ key \in DOMAIN d
    /\ Len(word) \in DOMAIN d[key]
    /\ word \in Range(d[key][Len(word)])

\* C39: the line 'add k W', unquoted, is dispatched to add_word: W is then
\* stored under k and no error is printed.
C39_AddCommandDispatched ==
    \A w \in {AAB, AB} :
        (out.fn = "parse_and_execute" /\ out.line = Join(<<CmdAdd, KeyK, w>>))
            => /\ out.arm = "add_word"
               /\ out.result = <<>>
               /\ Holds(dict, KeyK, w)

\* What the code does with the unquoted line: "Bad command", the dictionary
\* as it was.
UnquotedAddIsBadCommand ==
    \A w \in {AAB, AB} :
        (out.fn = "parse_and_execute" /\ out.line = Join(<<CmdAdd, KeyK, w>>))
            => /\ out.arm = "bad_command"
               /\ out.result = <<BadCommand>>
               /\ dict = out.dict

\* The arm is reached when the first part is quoted with the space in it.
QuotedAddIsDispatched ==
    \A w \in {AAB, AB} :
        (/\ out.fn = "parse_and_execute"
         /\ out.line = Join(<<Quoted(CmdAddSpace), KeyK, w>>))
            => /\ out.arm = "add_word"
               /\ out.result = <<>>
               /\ Holds(dict, KeyK, w)

====
